---- MODULE Spec2Model ----
(***************************************************************************)
(* A model of the Stylus evaluator (lib/visitor/evaluator.js), of the      *)
(* parser productions that build the trees it walks (the Parser source     *)
(* kept in examples/middleware.js) and of the stack frames                 *)
(* (lib/stack/frame.js).                                                   *)
(*                                                                         *)
(* The AST lives in a heap of node cells, because the evaluator mutates    *)
(* nodes in place and the identity of a node or of a `nodes` array decides *)
(* what a later statement sees.  A reference is an index into the heap;    *)
(* 0 is JavaScript's undefined.                                            *)
(***************************************************************************)
EXTENDS Integers, Sequences, FiniteSets, TLC

\* e, under the name the operator F gives it.
Let(e, F(_)) == F(e)

\* The same, with e worked out before F is: the statements of a JavaScript
\* function run in their order.
Do(e, F(_)) == IF e = e THEN F(e) ELSE F(e)

(***************************************************************************)
(* Node cells.  Every cell has every field; a kind uses these:             *)
(*   unit        num                                                       *)
(*   string, literal, charset, import   name (the text / the path)         *)
(*   color       name                                                      *)
(*   ident       name, val (NullRef: a lookup), flag = rest                 *)
(*   expression  nodes                                                     *)
(*   binop       name = op, val = left, blk = right                        *)
(*   ternary     val = cond, blk = trueExpr, alt = falseExpr               *)
(*   call        name, val = args                                          *)
(*   property    nodes = segments, val = expr, flag = literal, name        *)
(*   array       nodes (a JavaScript array held by a block)                *)
(*   block, root val = the array `nodes`, flag = scope, index              *)
(*   group       name = selector, val = block                              *)
(*   if          val = cond, blk = block, nodes = elses, flag = negate     *)
(*   each        name = val, key, val = expr, blk = block                  *)
(*   function    name, val = params, blk = block, fn = native pointer      *)
(*   params      nodes                                                     *)
(*   return      val = expr                                                *)
(***************************************************************************)
Node0 ==
  [k |-> "", name |-> "", num |-> 0, val |-> 0, blk |-> 0, alt |-> 0,
   nodes |-> <<>>, flag |-> FALSE, lineno |-> 0, index |-> -1,
   key |-> "", fn |-> ""]

\* nodes.null, nodes.true and nodes.false are singletons of the node library.
NullRef == 1

TrueRef == 2

FalseRef == 3

Singletons == {NullRef, TrueRef, FalseRef}

Heap0 ==
  << [Node0 EXCEPT !.k = "null"],
     [Node0 EXCEPT !.k = "boolean", !.flag = TRUE],
     [Node0 EXCEPT !.k = "boolean", !.flag = FALSE] >>

\* `new nodes.X(...)`: the arguments of the constructor are evaluated first,
\* then the node is a fresh cell at the end of the heap.  Every node has a
\* kind.
New(h, cell) ==
  IF cell.k = "" THEN [h |-> h, r |-> 0]
  ELSE [h |-> Append(h, cell), r |-> Len(h) + 1]

\* The statements or members of a node: block.nodes is an array of its own,
\* expression.nodes and params.nodes are never replaced and are kept inline.
NodesOf(h, r) ==
  IF h[r].k \in {"block", "root"} THEN h[h[r].val].nodes ELSE h[r].nodes

\* JavaScript's a[j] = v for 0 <= j <= a.length (j is 0-based).
SetAt(s, j, v) ==
  IF j + 1 <= Len(s) THEN [s EXCEPT ![j + 1] = v] ELSE Append(s, v)

(***************************************************************************)
(* The parser's output.  A source text is given as a tree of tagged tuples *)
(* (one per production); Load builds the nodes the production builds.      *)
(* Statement j (1-based) of a block on line l is on line 10 * l + j; the   *)
(* root is line 0.                                                         *)
(***************************************************************************)
RECURSIVE Load(_, _, _), LoadSeq(_, _, _, _), LoadBlock(_, _, _, _)

LoadSeq(h, ts, ln, stmts) ==
  IF ts = <<>> THEN [h |-> h, rs |-> <<>>]
  ELSE Let(Len(ts), LAMBDA j :
       Let(LoadSeq(h, SubSeq(ts, 1, j - 1), ln, stmts), LAMBDA front :
       Let(Load(front.h, ts[j], IF stmts THEN 10 * ln + j ELSE ln), LAMBDA last :
          [rs |-> Append(front.rs, last.r), h |-> last.h])))

\* Parser.block: new nodes.Block, `if (false === scope) block.scope = false`,
\* then block.push(stmt) for every statement.
LoadBlock(h, ts, scope, ln) ==
  Let(LoadSeq(h, ts, ln, TRUE), LAMBDA ss :
  Let(New(ss.h, [Node0 EXCEPT !.k = "array", !.nodes = ss.rs]), LAMBDA arr :
     New(arr.h, [Node0 EXCEPT !.k = "block", !.val = arr.r, !.flag = scope,
                              !.lineno = ln])))

Load(h, t, ln) ==
  Let(t[1], LAMBDA k :
  Let([Node0 EXCEPT !.k = k, !.lineno = ln], LAMBDA N :
     CASE k = "null" -> [h |-> h, r |-> NullRef]
       [] k = "true" -> [h |-> h, r |-> TrueRef]
       [] k = "false" -> [h |-> h, r |-> FalseRef]
       [] k = "unit" -> New(h, [N EXCEPT !.num = t[2]])
       [] k \in {"string", "literal", "charset", "import"} ->
            New(h, [N EXCEPT !.name = t[2]])
       \* Parser.primary: an ident token's value, `new nodes.Ident(name)`.
       [] k = "ident" -> New(h, [N EXCEPT !.name = t[2], !.val = NullRef])
       \* Parser.assignment, op `=`: new nodes.Ident(name, expr).
       [] k = "assign" ->
            Let(Load(h, t[3], ln), LAMBDA e :
               New(e.h, [N EXCEPT !.k = "ident", !.name = t[2], !.val = e.r]))
       \* Parser.assignment, op `?=`: the assignment node is both the operand
       \* of `is defined` and the false branch of the ternary.
       [] k = "?=" ->
            Let(Load(h, t[3], ln), LAMBDA e :
            Let(        New(e.h, [N EXCEPT !.k = "ident", !.name = t[2],
                                           !.val = e.r]), LAMBDA node :
            Let(           New(node.h, [N EXCEPT !.k = "binop",
                                                 !.name = "is defined",
                                                 !.val = node.r]), LAMBDA defined :
            Let(          New(defined.h, [N EXCEPT !.k = "ident",
                                                   !.name = t[2],
                                                   !.val = NullRef]), LAMBDA lookup :
               New(lookup.h, [N EXCEPT !.k = "ternary", !.val = defined.r,
                                       !.blk = lookup.r, !.alt = node.r])))))
       [] k = "expression" ->
            Let(LoadSeq(h, t[2], ln, FALSE), LAMBDA s :
               New(s.h, [N EXCEPT !.nodes = s.rs]))
       [] k = "binop" ->
            Let(Load(h, t[3], ln), LAMBDA l :
            Let(Load(l.h, t[4], ln), LAMBDA r :
               New(r.h, [N EXCEPT !.name = t[2], !.val = l.r, !.blk = r.r])))
       \* Parser.functionCall: new nodes.Call(name, args), args an Expression
       \* of one Expression per argument.
       [] k = "call" ->
            Let(LoadSeq(h, t[3], ln, FALSE), LAMBDA s :
            Let(New(s.h, [N EXCEPT !.k = "expression", !.nodes = s.rs]), LAMBDA args :
               New(args.h, [N EXCEPT !.name = t[2], !.val = args.r])))
       \* Parser.property: new nodes.Property(segments), prop.expr = list.
       [] k = "property" ->
            Let(LoadSeq(h, t[2], ln, FALSE), LAMBDA s :
            Let(Load(s.h, t[3], ln), LAMBDA e :
               New(e.h, [N EXCEPT !.nodes = s.rs, !.val = e.r])))
       \* Parser.selector: group.block = this.block(group).
       [] k = "group" ->
            Let(LoadBlock(h, t[3], TRUE, ln), LAMBDA b :
               New(b.h, [N EXCEPT !.name = t[2], !.val = b.r]))
       \* Parser.if: node.block = this.block(node, false); every else-if is
       \* new nodes.If(cond, block), a final else is the block itself.
       [] k \in {"if", "unless"} ->
            Let(Load(h, t[2], ln), LAMBDA c :
            Let(LoadBlock(c.h, t[3], FALSE, ln), LAMBDA b :
            Let(LoadSeq(b.h, t[4], ln, FALSE), LAMBDA e :
               New(e.h, [N EXCEPT !.k = "if", !.val = c.r, !.blk = b.r,
                                  !.nodes = e.rs, !.flag = (k = "unless")]))))
       [] k = "else if" ->
            Let(Load(h, t[2], ln), LAMBDA c :
            Let(LoadBlock(c.h, t[3], FALSE, ln), LAMBDA b :
               New(b.h, [N EXCEPT !.k = "if", !.val = c.r, !.blk = b.r])))
       [] k = "else" -> LoadBlock(h, t[2], FALSE, ln)
       \* Parser.for: new nodes.Each(val, key, expr), each.block = block(each).
       [] k = "for" ->
            Let(Load(h, t[4], ln), LAMBDA e :
            Let(LoadBlock(e.h, t[5], TRUE, ln), LAMBDA b :
               New(b.h, [N EXCEPT !.k = "each", !.name = t[2], !.key = t[3],
                                  !.val = e.r, !.blk = b.r])))
       \* Parser.functionDefinition: new nodes.Ident(name, fn) with
       \* fn = new nodes.Function(name, params), fn.block = this.block(fn).
       [] k = "function" ->
            Let(LoadSeq(h, t[3], ln, FALSE), LAMBDA p :
            Let(New(p.h, [N EXCEPT !.k = "params", !.nodes = p.rs]), LAMBDA ps :
            Let(LoadBlock(ps.h, t[4], TRUE, ln), LAMBDA b :
            Let(     New(b.h, [N EXCEPT !.name = t[2], !.val = ps.r,
                                        !.blk = b.r]), LAMBDA f :
               New(f.h, [N EXCEPT !.k = "ident", !.name = t[2], !.val = f.r])))))
       \* Parser.params: the ident token's node; `...` sets node.rest,
       \* `=` sets node.val = this.expression.
       [] k = "param" -> New(h, [N EXCEPT !.k = "ident", !.name = t[2],
                                          !.val = NullRef])
       [] k = "param..." -> New(h, [N EXCEPT !.k = "ident", !.name = t[2],
                                             !.val = NullRef, !.flag = TRUE])
       [] k = "param=" ->
            Let(Load(h, t[3], ln), LAMBDA e :
               New(e.h, [N EXCEPT !.k = "ident", !.name = t[2], !.val = e.r]))
       \* Parser.return: new nodes.Return(expr), or new nodes.Return.
       [] k = "return" ->
            IF Len(t) = 1 THEN New(h, [N EXCEPT !.val = NullRef])
            ELSE Let(Load(h, t[2], ln), LAMBDA e :
                    New(e.h, [N EXCEPT !.val = e.r]))))

\* Parser.parse with options.root: every statement is pushed onto the root's
\* own array, after the statements it holds already.  `rs` are the statements
\* of the text, in the order of the text.
Parse(h, root, ts) ==
  Let(h[root].val, LAMBDA arr :
  Let(LoadSeq(h, ts, 0, TRUE), LAMBDA ss :
     [h |-> [ss.h EXCEPT ![arr].nodes = @ \o ss.rs], rs |-> ss.rs]))

(***************************************************************************)
(* Deep copy of a subtree (Node.clone of the node library): a singleton is *)
(* its own clone, a cloned block has no index yet.                         *)
(***************************************************************************)
RECURSIVE Clone(_, _), CloneSeq(_, _)

CloneSeq(h, rs) ==
  IF rs = <<>> THEN [h |-> h, rs |-> <<>>]
  ELSE Let(Len(rs), LAMBDA j :
       Let(CloneSeq(h, SubSeq(rs, 1, j - 1)), LAMBDA front :
       Let(Clone(front.h, rs[j]), LAMBDA last :
          [rs |-> Append(front.rs, last.r), h |-> last.h])))

Clone(h, r) ==
  IF r = 0 \/ r \in Singletons THEN [h |-> h, r |-> r]
  ELSE Let(h[r], LAMBDA n :
       Let(Clone(h, n.val), LAMBDA a :
       Let(Clone(a.h, n.blk), LAMBDA b :
       Let(Clone(b.h, n.alt), LAMBDA c :
       Let(CloneSeq(c.h, n.nodes), LAMBDA s :
          New(s.h, [n EXCEPT !.val = a.r, !.blk = b.r, !.alt = c.r,
                             !.nodes = s.rs, !.index = -1]))))))

(***************************************************************************)
(* Helpers of the node library and of utils.                               *)
(***************************************************************************)
\* utils.unwrap: ((1 2 3)) is (1 2 3); an expression of one expression is
\* replaced by its member, anything else is left alone.
RECURSIVE unwrap(_, _)
unwrap(h, r) ==
  IF /\ h[r].k = "expression"
     /\ Len(h[r].nodes) = 1
     /\ h[h[r].nodes[1]].k = "expression"
  THEN unwrap(h, h[r].nodes[1])
  ELSE r

\* node.first: the first member of an expression (nodes.null when it has
\* none), the node itself otherwise.
RECURSIVE first(_, _)
first(h, r) ==
  IF h[r].k = "expression"
  THEN IF h[r].nodes = <<>> THEN NullRef ELSE first(h, h[r].nodes[1])
  ELSE r

\* expression.isEmpty
isEmpty(h, r) == h[r].k = "expression" /\ h[r].nodes = <<>>

\* node.toBoolean: null and false are false, a unit is its value # 0, an
\* expression of several members is true, any other node is true.
RECURSIVE toBoolean(_, _)
toBoolean(h, r) ==
  CASE h[r].k = "null" -> FalseRef
    [] h[r].k = "boolean" -> r
    [] h[r].k = "unit" -> IF h[r].num # 0 THEN TrueRef ELSE FalseRef
    [] h[r].k = "expression" ->
         IF Len(h[r].nodes) > 1 THEN TrueRef ELSE toBoolean(h, first(h, r))
    [] OTHER -> TrueRef

\* nodes.Boolean(val)
Boolean(b) == IF b THEN TrueRef ELSE FalseRef

(***************************************************************************)
(* Scope, Frame, Stack.                                                    *)
(***************************************************************************)
\* new Scope: no locals.
Scope == [n \in {} |-> 0]

\* new Frame(block)
Frame(block) == [scope |-> Scope, block |-> block]

\* scope.add(ident): the scope binds ident.name to the Ident.
add(h, scope, ident) ==
  [n \in DOMAIN scope \cup {h[ident].name} |->
     IF n = h[ident].name THEN ident ELSE scope[n]]

\* stack.lookup(name): the innermost frame that binds the name decides, and
\* the value is the one that the Ident bound there holds.
StackLookup(h, stack, name) ==
  Let({j \in 1..Len(stack) : name \in DOMAIN stack[j].scope}, LAMBDA binding :
  Let(CHOOSE j \in binding : \A m \in binding : m <= j, LAMBDA innermost :
     IF binding = {} THEN 0 ELSE h[stack[innermost].scope[name]].val))

\* The stack with every name bound to the value that its Ident holds.
Locals(h, stack) ==
  [j \in 1..Len(stack) |->
     [stack[j] EXCEPT !.scope = [n \in DOMAIN @ |-> h[@[n]].val]]]

\* Whether some frame of the stack binds the name.
Binds(stack, name) == \E j \in 1..Len(stack) : name \in DOMAIN stack[j].scope

\* stack.currentFrame
currentFrame(st) == st.stack[Len(st.stack)]

\* stack.pop()
pop(st) == [st EXCEPT !.stack = SubSeq(@, 1, Len(@) - 1)]

\* stack.push(frame)
push(st, frame) == [st EXCEPT !.stack = Append(@, frame)]

\* this.stack.currentFrame.scope.add(ident)
scopeAdd(st, ident) ==
  [st EXCEPT !.stack[Len(st.stack)].scope = add(st.heap, @, ident)]

\* `new nodes.X` inside the evaluator: the state with the cell, and its ref.
Alloc(st, cell) ==
  Let(New(st.heap, cell), LAMBDA n :
     [st |-> [st EXCEPT !.heap = n.h], r |-> n.r])


\* The built-in functions (lib/functions): the names the model knows.
bifs == {"unit"}

\* Calling a native function: what fn.apply(this, args) returns, here a
\* literal that names the table the function came from.
Apply(st, fn) ==
  Alloc(st, [Node0 EXCEPT !.k = "literal", !.name = st.heap[fn].fn])

(***************************************************************************)
(* The shape of a subtree: its nodes in pre-order, each with what it       *)
(* holds.  Two subtrees of equal shape print the same.                     *)
(***************************************************************************)
RECURSIVE Shape(_, _), ShapeSeq(_, _)

ShapeSeq(h, rs) ==
  IF rs = <<>> THEN <<>> ELSE Shape(h, rs[1]) \o ShapeSeq(h, Tail(rs))

Shape(h, r) ==
  IF r = 0 THEN <<>>
  ELSE <<[k |-> h[r].k, name |-> h[r].name, num |-> h[r].num,
          flag |-> h[r].flag, key |-> h[r].key, fn |-> h[r].fn,
          n |-> Len(h[r].nodes),
          c |-> <<h[r].val # 0, h[r].blk # 0, h[r].alt # 0>>]>>
       \o Shape(h, h[r].val) \o Shape(h, h[r].blk) \o Shape(h, h[r].alt)
       \o ShapeSeq(h, h[r].nodes)

(***************************************************************************)
(* The evaluator object `ev` is a record of                                *)
(*   heap, root (this.root), stack, calling, return, group, rootIndex      *)
(*   (-1: undefined), lineno (0: unset), functions (options.functions),    *)
(*   raised (the node whose handler has thrown an Error, 0 when none has), *)
(*   modes (this.return at the start of the visit in progress at each      *)
(*   nesting depth), depths (the length of this.stack at those moments),   *)
(*   visited (the nodes this.visit was called with),                       *)
(* and of logs that only record what happened:                             *)
(*   calls     one entry per visitCall that returned                       *)
(*   active    the Call nodes of the invocations in progress               *)
(*   binds     one entry per parameter invokeFunction came to              *)
(*   invokes   one entry per invokeFunction that returned                  *)
(*   evals     one entry per invoke in return mode                         *)
(*   mixes     one entry per invoke in mixin mode                          *)
(*   ifs       one entry per visitIf that returned                         *)
(*   eachs     one entry per iteration of visitEach (the idents bound, the *)
(*             clone visited, the nodes of the frame's block before it and *)
(*             the nodes the iteration has put there), and one, with body  *)
(*             0, per visitEach that returned (the nodes of the block)     *)
(*   props     one entry per visit of a property flagged literal           *)
(*   properties  one entry per visitProperty that returned (what the name  *)
(*             resolved to, whether it was evaluated as a call, and the    *)
(*             length of this.calling before and after)                    *)
(*   imported  one entry per file visitImport spliced in                   *)
(*   idents    one entry per visitIdent that returned                      *)
(*   blocks    one entry per visitBlock that returned (block.scope and the *)
(*             stack at its start, after its push and after its pop, and   *)
(*             what the bound names resolve to before and after)           *)
(*   defaults  one entry per `?=` evaluated                                *)
(*                                                                         *)
(* The evaluator runs as a machine.  `ctl` says what happens next: the     *)
(* node to visit, the value a visit has returned, or what was thrown.      *)
(* `ks` holds the handlers that wait for a nested visit, innermost last:   *)
(* for each the place in its code where it waits (tag), its node and its   *)
(* local variables.  A handler is an operator from (ev, ks, node) to the   *)
(* next machine state; where its code goes on after a nested visit is an   *)
(* operator from (ev, ks, k, v), k the handler's popped entry and v the    *)
(* value the visit returned.                                               *)
(***************************************************************************)
K0 ==
  [tag |-> "", node |-> 0, i |-> 0, len |-> 0, saved |-> FALSE, a |-> 0,
   b |-> 0, name |-> "", x |-> <<>>]

\* this.visit(node) is next.
Visit(ev, ks, node) ==
  [ev |-> ev, ks |-> ks, ctl |-> [op |-> "visit", node |-> node, e |-> ""]]

\* A visit returns v.
Return(ev, ks, v) ==
  [ev |-> ev, ks |-> ks, ctl |-> [op |-> "return", node |-> v, e |-> ""]]

\* The catch clause of Evaluator.prototype.visit for the node `at`:
\* this.lineno = this.lineno || node.lineno.
Caught(ev, at) ==
  IF at = 0 THEN ev
  ELSE [ev EXCEPT !.lineno = IF @ # 0 THEN @ ELSE ev.heap[at].lineno]

\* The handler of the node `at` throws the error e.
Throw(ev, ks, at, e) ==
  [ev |-> [Caught(ev, at) EXCEPT !.raised = at], ks |-> ks,
   ctl |-> [op |-> "throw", node |-> 0, e |-> e]]

\* visitReturn throws the Return node itself.
ThrowReturn(ev, ks, ret) ==
  [ev |-> Caught(ev, ret), ks |-> ks,
   ctl |-> [op |-> "throw", node |-> ret, e |-> "return"]]

\* Evaluator.lookupFunction: a host function, else a built-in, wrapped in a
\* new Function node; undefined when there is neither.
lookupFunction(st, name) ==
  IF name \in st.functions \/ name \in bifs
  THEN Alloc(st, [Node0 EXCEPT !.k = "function", !.name = name,
                   !.fn = IF name \in st.functions THEN "functions"
                          ELSE "bifs"])
  ELSE [st |-> st, r |-> 0]

\* Evaluator.lookup
lookup(st, name) ==
  Let(StackLookup(st.heap, st.stack, name), LAMBDA val :
     IF val # 0 THEN [st |-> st, r |-> unwrap(st.heap, val)]
     ELSE lookupFunction(st, name))

\* Evaluator.mixin with an array as `dest`: the nodes it pushes, in order.
\* A `return` ends the call of mixin it is met in, not the calls around it.
RECURSIVE mixin(_, _)
mixin(h, nodes) ==
  IF nodes = <<>> THEN <<>>
  ELSE CASE h[nodes[1]].k = "return" -> <<>>
         [] h[nodes[1]].k = "block" ->
              mixin(h, NodesOf(h, nodes[1])) \o mixin(h, Tail(nodes))
         [] OTHER -> <<nodes[1]>> \o mixin(h, Tail(nodes))

\* this.mixin(nodes, block) with a Block as `dest`: block.push(node) for
\* every node mixin pushes.
mixinInto(st, nodes, block) ==
  [st EXCEPT !.heap[st.heap[block].val].nodes = @ \o mixin(st.heap, nodes)]

\* Evaluator.eval: 0 is undefined (no node at all).
RECURSIVE eval(_, _)
eval(h, nodes) ==
  IF nodes = <<>> THEN 0
  ELSE CASE h[nodes[1]].k = "return" -> h[nodes[1]].val
         [] h[nodes[1]].k = "block" -> eval(h, NodesOf(h, nodes[1]))
         [] OTHER -> IF Len(nodes) = 1 THEN nodes[1]
                     ELSE eval(h, Tail(nodes))

\* Evaluator.isDefined, called by visitBinOp for the pseudo operator.
isDefined(ev, ks, binop) ==
  Let(ev.heap[binop].val, LAMBDA node :
  Let(lookup(ev, ev.heap[node].name), LAMBDA l :
     IF ev.heap[node].k = "ident"
     THEN Return(l.st, ks, Boolean(l.r # 0))
     ELSE Throw(ev, ks, binop, "invalid is defined check")))

\* left.coerce(right) and left.operate(op, right) of the node library, for
\* the operators the source texts of the model use (== != > + -): a new
\* node (e = ""), or the error.
operate(st, op, left, right) ==
  Let(st.heap[left], LAMBDA l :
  Let(st.heap[right], LAMBDA r :
  Let(l.num = r.num /\ l.name = r.name, LAMBDA same :
  LET unit(n) == Alloc(st, [Node0 EXCEPT !.k = "unit", !.num = n]) IN
     CASE l.k # r.k -> [st |-> st, r |-> 0, e |-> "cannot coerce"]
       [] l.k = r.k /\ op = "==" -> [st |-> st, r |-> Boolean(same), e |-> ""]
       [] l.k = r.k /\ op = "!=" -> [st |-> st, r |-> Boolean(~same), e |-> ""]
       [] l.k = "unit" /\ r.k = "unit" /\ op = ">" ->
            [st |-> st, r |-> Boolean(l.num > r.num), e |-> ""]
       [] l.k = "unit" /\ r.k = "unit" /\ op = "+" ->
            unit(l.num + r.num) @@ [e |-> ""]
       [] l.k = "unit" /\ r.k = "unit" /\ op = "-" ->
            unit(l.num - r.num) @@ [e |-> ""]
       [] OTHER -> [st |-> st, r |-> 0, e |-> "cannot operate"])))

\* Evaluator.visitGroup
visitGroup(ev, ks, group) ==
  Visit([ev EXCEPT !.group = group],
        Append(ks, [K0 EXCEPT !.tag = "group", !.node = group]),
        ev.heap[group].val)

visitGroupBlock(ev, ks, k, v) ==
  Return([ev EXCEPT !.heap[k.node].val = v, !.group = 0], ks, k.node)

\* Evaluator.visitReturn
visitReturn(ev, ks, ret) ==
  Visit(ev, Append(ks, [K0 EXCEPT !.tag = "return", !.node = ret]),
        ev.heap[ret].val)

visitReturnExpr(ev, ks, k, v) ==
  ThrowReturn([ev EXCEPT !.heap[k.node].val = v], ks, k.node)

\* Evaluator.visitEach: the loop.  k.a and k.b are the idents `val` and
\* `key`, k.x.expr is the list, k.x.frame the place on the stack of the frame
\* that was current when visitEach began (`scope`, `block`).
EachLoop(ev, ks, k) ==
  Let(ev.stack[k.x.frame].block, LAMBDA block :
  Let(Alloc(ev, [Node0 EXCEPT !.k = "unit", !.num = k.i]), LAMBDA unit :
  Let(      [unit.st EXCEPT
               !.heap[k.a].val = ev.heap[k.x.expr].nodes[k.i + 1],
               !.heap[k.b].val = unit.r], LAMBDA s1 :
  Let(      [s1 EXCEPT !.stack[k.x.frame].scope =
                          add(s1.heap, add(s1.heap, @, k.a), k.b)], LAMBDA s2 :
  Let(Clone(s2.heap, s2.heap[k.node].blk), LAMBDA c :
     IF k.i >= k.len
     THEN Return([ev EXCEPT
                    !.heap[block].flag = TRUE,
                    !.eachs = Append(@, [id |-> k.a, i |-> k.len, val |-> 0,
                                         key |-> 0, body |-> 0,
                                         list |-> ev.heap[k.x.expr].nodes,
                                         nodes |-> NodesOf(ev.heap, block),
                                         made |-> <<>>])],
                 ks, NullRef)
     ELSE Visit([s2 EXCEPT
                   !.heap = c.h,
                   !.eachs = Append(@, [id |-> k.a, i |-> k.i,
                                        val |-> StackLookup(s2.heap, s2.stack, s2.heap[k.a].name),
                                        key |-> StackLookup(s2.heap, s2.stack, s2.heap[k.b].name),
                                        body |-> c.r,
                                        list |-> ev.heap[k.x.expr].nodes,
                                        nodes |-> NodesOf(ev.heap, block),
                                        made |-> <<>>])],
                Append(ks, [k EXCEPT !.x.entry = Len(ev.eachs) + 1]), c.r))))))

visitEach(ev, ks, each) ==
  Visit(ev, Append(ks, [K0 EXCEPT !.tag = "each", !.node = each]),
        unwrap(ev.heap, ev.heap[each].val))

visitEachExpr(ev, ks, k, v) ==
  Let(k.node, LAMBDA each :
  Let(unwrap(ev.heap, v), LAMBDA expr :
  Let(       Alloc(ev, [Node0 EXCEPT !.k = "ident", !.val = NullRef,
                                     !.name = ev.heap[each].name]), LAMBDA val :
  Let(       Alloc(val.st, [Node0 EXCEPT !.k = "ident", !.val = NullRef,
                                         !.name =
                                           IF ev.heap[each].key # ""
                                           THEN ev.heap[each].key
                                           ELSE "__index__"]), LAMBDA key :
     EachLoop([key.st EXCEPT !.heap[ev.heap[each].blk].flag = FALSE], ks,
              [k EXCEPT !.tag = "each body", !.i = 0,
                        !.len = Len(ev.heap[expr].nodes),
                        !.a = val.r, !.b = key.r,
                        !.x = [expr |-> expr, frame |-> Len(ev.stack), entry |-> 0]])))))

visitEachBody(ev, ks, k, v) ==
  Let(mixinInto(ev, NodesOf(ev.heap, v), ev.stack[k.x.frame].block), LAMBDA s1 :
  Let(NodesOf(s1.heap, ev.stack[k.x.frame].block), LAMBDA nodes :
     EachLoop([s1 EXCEPT
                 !.eachs[k.x.entry].made =
                   SelectSeq(nodes, LAMBDA n :
                     /\ n \notin Singletons
                     /\ \A m \in 1..Len(ev.eachs[k.x.entry].nodes) :
                          ev.eachs[k.x.entry].nodes[m] # n)],
              ks, [k EXCEPT !.i = @ + 1])))

\* scope.add(new nodes.Ident(name, val)) on the current frame.
bind(st, name, val) ==
  Let(Alloc(st, [Node0 EXCEPT !.k = "ident", !.name = name, !.val = val]),
      LAMBDA ident : scopeAdd(ident.st, ident.r))

\* A parameter's default decides whenever there is one.
paramValDefault(h, given, i, node) ==
  Let(IF i + 1 <= Len(given) THEN given[i + 1] ELSE 0, LAMBDA arg :
     IF h[node].val # NullRef \/ arg = 0 THEN h[node].val ELSE arg)

\* `arg && !arg.isEmpty ? args.nodes[i] : node.val` of invokeFunction: the
\* value of the i-th parameter (0-based) `node`, given the arguments.
paramVal(h, given, i, node) ==
  Let(IF i + 1 <= Len(given) THEN given[i + 1] ELSE 0, LAMBDA arg :
     IF arg # 0 /\ ~isEmpty(h, arg) THEN arg ELSE h[node].val)

\* What the forEach over fn.params.nodes of Evaluator.invokeFunction writes
\* to the log for the i-th parameter (0-based).
bindEntry(st, fn, args, i) ==
  Let(st.heap[st.heap[fn].val].nodes[i + 1], LAMBDA node :
  Let(st.heap[args].nodes, LAMBDA given :
     [fn |-> fn, i |-> i, name |-> st.heap[node].name,
      rest |-> st.heap[node].flag,
      frame |-> Len(st.stack), args |-> given,
      empty |-> [j \in 1..Len(given) |-> isEmpty(st.heap, given[j])],
      default |-> st.heap[node].val]))

\* The rest branch of that forEach: node.val = new nodes.Expression of the
\* arguments from the i-th on, then scope.add(node).
bindRest(st, fn, args, i) ==
  Let(st.heap[st.heap[fn].val].nodes[i + 1], LAMBDA node :
  Let(st.heap[args].nodes, LAMBDA given :
  Let(     Alloc(st, [Node0 EXCEPT !.k = "expression",
                                   !.nodes = SubSeq(given, i + 1, Len(given))]), LAMBDA e :
  Let(scopeAdd([e.st EXCEPT !.heap[node].val = e.r], node), LAMBDA r :
     [st |-> [r EXCEPT !.binds =
                Append(@, bindEntry(st, fn, args, i) @@
                          [val |-> e.r,
                           bound |-> StackLookup(r.heap, r.stack, st.heap[node].name),
                           list |-> r.heap[e.r].nodes])],
      e |-> ""]))))

\* The other branch: the value, node = node.clone(), node.val = val, the
\* error when the value is nodes.null, then scope.add(node).
bindParam(st, fn, args, i) ==
  Let(st.heap[st.heap[fn].val].nodes[i + 1], LAMBDA node :
  Let(paramVal(st.heap, st.heap[args].nodes, i, node), LAMBDA val :
  Let(Clone(st.heap, node), LAMBDA cl :
  Let([st EXCEPT !.heap = [cl.h EXCEPT ![cl.r].val = val]], LAMBDA c :
  Let(scopeAdd(c, cl.r), LAMBDA s :
     IF st.heap[val].k = "null"
     THEN [st |-> [c EXCEPT !.binds =
                     Append(@, bindEntry(st, fn, args, i) @@
                               [val |-> 0, bound |-> 0, list |-> <<>>])],
           e |-> "argument required"]
     ELSE [st |-> [s EXCEPT !.binds =
                     Append(@, bindEntry(st, fn, args, i) @@
                               [val |-> val,
                                bound |-> StackLookup(s.heap, s.stack, st.heap[node].name),
                                list |-> <<>>])],
           e |-> ""])))))

\* The forEach over fn.params.nodes of Evaluator.invokeFunction, from the
\* i-th parameter on (0-based): the state with the parameters bound, and the
\* error thrown, "" when none.
RECURSIVE ParamsLoop(_, _, _, _)
ParamsLoop(st, fn, args, i) ==
  IF i >= Len(st.heap[st.heap[fn].val].nodes) THEN [st |-> st, e |-> ""]
  ELSE Let(IF st.heap[st.heap[st.heap[fn].val].nodes[i + 1]].flag
           THEN bindRest(st, fn, args, i)
           ELSE bindParam(st, fn, args, i), LAMBDA b :
          IF b.e # "" THEN b ELSE ParamsLoop(b.st, fn, args, i + 1))

\* Evaluator.invoke: the state, and the node the invocation evaluates to.
\* An undefined block.index (-1) makes slice(0, index) and slice(index + 1)
\* the whole array.
invoke(st, body) ==
  Let(currentFrame(st).block, LAMBDA block :
  Let(NodesOf(st.heap, block), LAMBDA nodes :
  Let(st.heap[block].index, LAMBDA index :
  Let(IF index = -1 THEN nodes ELSE SubSeq(nodes, 1, index), LAMBDA head :
  Let(        IF index = -1 THEN nodes
              ELSE SubSeq(nodes, index + 2, Len(nodes)), LAMBDA tail :
  Let(head \o mixin(st.heap, NodesOf(st.heap, body)), LAMBDA mixed :
  Let(Alloc(st, [Node0 EXCEPT !.k = "array", !.nodes = mixed \o tail]), LAMBDA arr :
  Let(eval(st.heap, NodesOf(st.heap, body)), LAMBDA ret :
     IF st.return
     THEN [st |-> [st EXCEPT !.evals =
                     Append(@, [body |-> body, heap |-> st.heap,
                                nodes |-> NodesOf(st.heap, body),
                                v |-> ret])],
           r |-> ret]
     ELSE [st |-> [arr.st EXCEPT
                     !.heap[block].val = arr.r,
                     !.mixes =
                        Append(@, [block |-> block, index |-> index,
                                   heap |-> st.heap,
                                   call |-> IF st.active = <<>> THEN 0
                                            ELSE st.active[Len(st.active)],
                                   body |-> NodesOf(st.heap, body),
                                   before |-> nodes,
                                   after |-> mixed \o tail])],
           r |-> NullRef]))))))))

\* The end of Evaluator.visitCall: this.calling.pop(); return ret.
visitCallReturn(ev, ks, k, ret) ==
  Return([ev EXCEPT
            !.calling = SubSeq(@, 1, Len(@) - 1),
            !.active = SubSeq(@, 1, Len(@) - 1),
            !.calls =
               Append(@, k.x @@
                         [v |-> ret,
                          depth1 |-> Len(ev.stack),
                          calling1 |-> SubSeq(ev.calling, 1,
                                              Len(ev.calling) - 1)])],
         ks, ret)

\* Evaluator.invokeFunction, up to the visit of the cloned body.
invokeFunction(ev, ks, k, fn, args) ==
  Do(Clone(ev.heap, ev.heap[fn].blk), LAMBDA body :
  Let(currentFrame(ev).block, LAMBDA mixinBlock :
  Let(New(body.h, [Node0 EXCEPT !.k = "array"]), LAMBDA arr :
  Let(         New(arr.h, [Node0 EXCEPT !.k = "block", !.val = arr.r,
                                        !.flag = TRUE]), LAMBDA block :
  Do(       bind(push([ev EXCEPT !.heap = block.h], Frame(block.r)),
                 "arguments", args), LAMBDA s1 :
  Let(     IF ev.return THEN [st |-> s1, r |-> FalseRef]
           ELSE Alloc(s1, [Node0 EXCEPT !.k = "string",
                                        !.name = ev.heap[mixinBlock].k]), LAMBDA m :
  Do(ParamsLoop(bind(m.st, "mixin", m.r), fn, args, 0), LAMBDA p :
     IF p.e # "" THEN Throw(p.st, ks, k.node, p.e)
     ELSE Visit(p.st,
                Append(ks, [k EXCEPT !.tag = "invokeFunction",
                                     !.x = @ @@ [binds0 |-> Len(ev.binds),
                                                 binds1 |-> Len(p.st.binds),
                                                 fn0 |-> Shape(ev.heap, fn),
                                                 args1 |-> Shape(ev.heap,
                                                                 args)]]),
                body.r))))))))

\* Evaluator.invokeFunction, from this.stack.pop() on.
invokeFunctionBody(ev, ks, k, v) ==
  Let(invoke(pop(ev), v), LAMBDA r :
     visitCallReturn([r.st EXCEPT !.invokes =
                        Append(@, [fn |-> k.a, call |-> k.node,
                                   before |-> k.x.fn0,
                                   after |-> Shape(r.st.heap, k.a),
                                   args |-> k.x.args1,
                                   binds0 |-> k.x.binds0,
                                   binds1 |-> k.x.binds1,
                                   locals |->
                                     [n \in DOMAIN currentFrame(ev).scope |->
                                        NodesOf(ev.heap,
                                                StackLookup(ev.heap, ev.stack, n))],
                                   v |-> Shape(r.st.heap, r.r)])],
                     ks, [k EXCEPT !.x = [f \in DOMAIN @ \ {"fn0", "args1", "binds0", "binds1"}
                                            |-> @[f]]],
                     r.r))

\* Evaluator.invokeBuiltin
invokeBuiltin(ev, ks, k, fn, args) ==
  Let(Apply(ev, fn), LAMBDA body :
  Let(        Alloc(body.st, [Node0 EXCEPT !.k = "expression",
                                           !.nodes = <<body.r>>]), LAMBDA expr :
  Let(invoke(expr.st, expr.r), LAMBDA r :
     visitCallReturn(r.st, ks, k, r.r))))

\* Evaluator.literalCall
literalCall(ev, ks, call, entry) ==
  Visit(ev, Append(ks, [K0 EXCEPT !.tag = "literalCall", !.node = call,
                                  !.x = entry]),
        ev.heap[call].val)

literalCallArgs(ev, ks, k, v) ==
  Return([ev EXCEPT !.heap[k.node].val = v,
                    !.calls = Append(@, k.x @@
                                        [v |-> k.node,
                                         depth1 |-> Len(ev.stack),
                                         calling1 |-> ev.calling])],
         ks, k.node)

\* The recursion guard of visitCall.
MaxCallStackSize == 200

\* Evaluator.visitCall, up to the visit of the arguments.
visitCall(ev, ks, call) ==
  Let(ev.heap[call].name, LAMBDA name :
  Let(lookup(ev, name), LAMBDA l :
      \* Variable function
  Let(       IF l.r # 0 /\ l.st.heap[l.r].k = "expression"
             THEN IF l.st.heap[l.r].nodes = <<>> THEN 0
                  ELSE l.st.heap[l.r].nodes[1]
             ELSE l.r, LAMBDA var :
      \* Not a function? try user-defined or built-ins
  Let(     IF var # 0 /\ l.st.heap[var].k # "function"
           THEN lookupFunction(l.st, name)
           ELSE [st |-> l.st, r |-> var], LAMBDA f :
  Let(f.r, LAMBDA fn :
  Let(         [call |-> call, name |-> name, fn |-> fn, var |-> var,
                how |-> CASE fn = 0 -> "literal"
                          [] fn # 0 /\ fn = var /\ Binds(ev.stack, name) ->
                               "stack"
                          [] OTHER -> f.st.heap[fn].fn,
                bound |-> StackLookup(ev.heap, ev.stack, name),
                args0 |-> Shape(ev.heap, ev.heap[call].val),
                depth0 |-> Len(ev.stack), calling0 |-> ev.calling], LAMBDA entry :
  Let(      [f.st EXCEPT !.calling = Append(@, name),
                         !.active = Append(@, call)], LAMBDA s1 :
     CASE fn = 0 -> literalCall(f.st, ks, call, entry)
       [] fn # 0 /\ f.st.heap[fn].k # "function" ->
            literalCall(f.st, ks, call, entry)
       [] OTHER ->
            IF Len(s1.calling) > MaxCallStackSize
            THEN Throw(s1, ks, call, "Maximum call stack size exceeded")
            ELSE Visit([s1 EXCEPT !.return = TRUE],
                       Append(ks, [K0 EXCEPT !.tag = "call", !.node = call,
                                             !.a = fn, !.saved = s1.return,
                                             !.x = entry]),
                       s1.heap[call].val))))))))

\* Evaluator.visitCall, from `this.return = _` on.
visitCallArgs(ev, ks, k, v) ==
  IF ev.heap[k.a].fn # ""
  THEN invokeBuiltin([ev EXCEPT !.return = k.saved], ks, k, k.a, v)
  ELSE invokeFunction([ev EXCEPT !.return = k.saved], ks, k, k.a, v)

\* What visitIdent adds to the log when it returns v.  stack1 is the stack
\* once the value is evaluated, before scope.add.
identLog(ev, k, v, stack1) ==
  [ev EXCEPT !.idents =
     Append(@, k.x @@ [v |-> v, after |-> Shape(ev.heap, k.node),
                       val |-> ev.heap[k.node].val,
                       stack1 |-> stack1, stack2 |-> Locals(ev.heap, ev.stack)])]

\* Evaluator.visitIdent
visitIdent(ev, ks, ident) ==
  Let(ev.heap[ident].name, LAMBDA name :
  Let(         [ident |-> ident, name |-> name,
                assign |-> ev.heap[ident].val # NullRef,
                bound |-> Binds(ev.stack, name),
                before |-> Shape(ev.heap, ident), stack0 |-> Locals(ev.heap, ev.stack)], LAMBDA entry :
  Let([K0 EXCEPT !.node = ident, !.x = entry, !.saved = ev.return], LAMBDA k :
  Let(lookup(ev, name), LAMBDA l :
     CASE ev.heap[ident].val = NullRef /\ l.r # 0 ->
            Visit(l.st, Append(ks, [k EXCEPT !.tag = "ident lookup"]), l.r)
       [] ev.heap[ident].val = NullRef /\ l.r = 0 ->
            Return(identLog(l.st, k, ident, Locals(ev.heap, ev.stack)), ks, ident)
       [] OTHER ->
            Visit([ev EXCEPT !.return = TRUE],
                  Append(ks, [k EXCEPT !.tag = "ident assign"]),
                  ev.heap[ident].val)))))

visitIdentLookup(ev, ks, k, v) ==
  Return(identLog(ev, k, v, k.x.stack0), ks, v)

visitIdentAssign(ev, ks, k, v) ==
  Return(identLog(scopeAdd([ev EXCEPT !.heap[k.node].val = v,
                                      !.return = k.saved],
                           k.node),
                  k, v, Locals(ev.heap, ev.stack)),
         ks, v)

\* Evaluator.visitBinOp
visitBinOp(ev, ks, binop) ==
  IF ev.heap[binop].name = "is defined" THEN isDefined(ev, ks, binop)
  ELSE Visit([ev EXCEPT !.return = TRUE],
             Append(ks, [K0 EXCEPT !.tag = "binop left", !.node = binop,
                                   !.saved = ev.return]),
             ev.heap[binop].val)

visitBinOpLeft(ev, ks, k, v) ==
  Visit(ev, Append(ks, [k EXCEPT !.tag = "binop right", !.a = v]),
        ev.heap[k.node].blk)

visitBinOpRight(ev, ks, k, v) ==
  Let(ev.heap[k.node].name, LAMBDA op :
  Let([ev EXCEPT !.return = k.saved], LAMBDA s :
  Let(op \in {"[]", "in"}, LAMBDA whole :
  Let(IF whole THEN k.a ELSE first(s.heap, k.a), LAMBDA left :
  Let(IF whole THEN v ELSE first(s.heap, v), LAMBDA right :
  Let(        Alloc([s EXCEPT !.heap[right].num = -@],
                    [Node0 EXCEPT !.k = "expression",
                                  !.nodes = <<left, right>>]), LAMBDA expr :
  Let(operate(s, op, left, right), LAMBDA o :
     CASE op = "-" /\ s.heap[left].k = "ident" /\ s.heap[right].k = "unit" ->
            Return(expr.st, ks, expr.r)
       [] OTHER ->
            IF o.e = "" THEN Visit(o.st, ks, o.r)
            ELSE IF o.e = "cannot coerce" /\ op \in {"==", "!="}
                 THEN Return(s, ks, FalseRef)
                 ELSE Throw(s, ks, k.node, o.e))))))))

\* Evaluator.visitTernary
visitTernary(ev, ks, ternary) ==
  Let(ev.heap[ternary].alt, LAMBDA node :
  Let(ev.heap[ternary].val, LAMBDA cond :
  Let(         [node |-> node, name |-> ev.heap[node].name,
                default |-> ev.heap[cond].k = "binop"
                            /\ ev.heap[cond].name = "is defined",
                bound |-> Binds(ev.stack, ev.heap[node].name),
                stack0 |-> Locals(ev.heap, ev.stack), idents0 |-> Len(ev.idents)], LAMBDA entry :
     Visit(ev, Append(ks, [K0 EXCEPT !.tag = "ternary", !.node = ternary,
                                     !.x = entry]),
           cond))))

visitTernaryCond(ev, ks, k, v) ==
  Visit(ev, Append(ks, [k EXCEPT !.tag = "ternary branch"]),
        IF toBoolean(ev.heap, v) = TrueRef THEN ev.heap[k.node].blk
        ELSE ev.heap[k.node].alt)

visitTernaryBranch(ev, ks, k, v) ==
  Return(IF k.x.default
         THEN [ev EXCEPT !.defaults =
                 Append(@, [node |-> k.x.node, name |-> k.x.name,
                            bound |-> k.x.bound, v |-> v,
                            val |-> ev.heap[k.x.node].val,
                            stack0 |-> k.x.stack0, stack1 |-> Locals(ev.heap, ev.stack),
                            evaluated |->
                              \E j \in k.x.idents0 + 1..Len(ev.idents) :
                                 ev.idents[j].ident = k.x.node])]
         ELSE ev,
         ks, v)

\* Evaluator.visitExpression: `len` is read once, before the loop.
ExpressionLoop(ev, ks, k) ==
  IF k.i >= k.len THEN Return(ev, ks, k.node)
  ELSE Visit(ev, Append(ks, k), ev.heap[k.node].nodes[k.i + 1])

visitExpression(ev, ks, expr) ==
  ExpressionLoop(ev, ks, [K0 EXCEPT !.tag = "expression", !.node = expr,
                                    !.len = Len(ev.heap[expr].nodes)])

visitExpressionNode(ev, ks, k, v) ==
  ExpressionLoop([ev EXCEPT !.heap[k.node].nodes[k.i + 1] = v], ks,
                 [k EXCEPT !.i = @ + 1])

\* toString of Evaluator.interpolate, for a node that is no expression.
toString(h, n) ==
  CASE h[n].k \in {"function", "ident", "literal", "string"} -> h[n].name
    [] h[n].k = "unit" -> ToString(h[n].num)
    [] OTHER -> ""

\* Evaluator.visitProperty, once interpolate has returned the name (k.name).
visitPropertyNamed(ev, ks, k) ==
  Let(k.node, LAMBDA prop :
  Let(k.name, LAMBDA name :
  Let(lookup(ev, name), LAMBDA l :
  Let(l.r # 0 /\ l.st.heap[l.r].k = "function", LAMBDA call :
  Let(\E j \in 1..Len(ev.calling) : ev.calling[j] = name, LAMBDA literal :
  Let(     Alloc([l.st EXCEPT !.calling = Append(@, name)],
                 [Node0 EXCEPT !.k = "call", !.name = name,
                               !.val = ev.heap[prop].val]), LAMBDA c :
  Let(         [name |-> name, call |-> call, active |-> literal,
                flagged |-> ev.heap[prop].flag, expr |-> ev.heap[prop].val,
                calling0 |-> Len(ev.calling)], LAMBDA entry :
     IF call /\ ~literal /\ ~ev.heap[prop].flag
     THEN Visit(c.st, Append(ks, [k EXCEPT !.tag = "property call", !.a = c.r,
                                           !.b = l.r, !.x = @ @@ entry]),
                c.r)
     ELSE Visit([l.st EXCEPT !.return = TRUE],
                Append(ks, [k EXCEPT !.tag = "property",
                                     !.saved = ev.return, !.x = @ @@ entry]),
                ev.heap[prop].val))))))))

\* Evaluator.interpolate: the segments from the k.i-th on (0-based); k.name
\* is the string joined so far.
RECURSIVE interpolate(_, _, _)
interpolate(ev, ks, k) ==
  Let(ev.heap[k.node].nodes, LAMBDA segs :
  Let(segs[k.i + 1], LAMBDA node :
     CASE k.i >= Len(segs) -> visitPropertyNamed(ev, ks, k)
       [] k.i < Len(segs) /\ ev.heap[node].k = "expression" ->
            Visit([ev EXCEPT !.return = TRUE],
                  Append(ks, [k EXCEPT !.saved = ev.return]), node)
       [] OTHER ->
            interpolate(ev, ks, [k EXCEPT !.i = @ + 1,
                                          !.name = @ \o toString(ev.heap, node)])))

interpolateSegment(ev, ks, k, v) ==
  interpolate([ev EXCEPT !.return = k.saved], ks,
              [k EXCEPT !.i = @ + 1,
                        !.name = @ \o toString(ev.heap, first(ev.heap, v))])

\* Evaluator.visitProperty
visitProperty(ev, ks, prop) ==
  interpolate(ev, ks,
              [K0 EXCEPT !.tag = "interpolate", !.node = prop,
                         !.x = [prop |-> prop,
                                literal |-> ev.heap[prop].flag,
                                name0 |-> ev.heap[prop].name,
                                expr0 |-> Shape(ev.heap, ev.heap[prop].val),
                                stack0 |-> Locals(ev.heap, ev.stack)]])

\* What visitProperty adds to the log when it returns.
propertyLog(ev, k, asCall) ==
  [ev EXCEPT !.properties =
     Append(@, [prop |-> k.node, name |-> k.x.name, call |-> k.x.call,
                active |-> k.x.active, flagged |-> k.x.flagged,
                expr |-> k.x.expr, calling0 |-> k.x.calling0,
                asCall |-> asCall,
                args |-> IF asCall THEN ev.heap[k.a].val ELSE 0,
                calling1 |-> Len(ev.calling)])]

visitPropertyCall(ev, ks, k, v) ==
  Return(propertyLog([ev EXCEPT !.calling = SubSeq(@, 1, Len(@) - 1)],
                     k, TRUE),
         ks, v)

visitPropertyExpr(ev, ks, k, v) ==
  Return([propertyLog(ev, k, FALSE) EXCEPT !.heap[k.node].val = v,
                    !.heap[k.node].name = k.name,
                    !.heap[k.node].flag = TRUE,
                    !.return = k.saved,
                    !.props = IF k.x.literal
                              THEN Append(@, k.x @@
                                             [name1 |-> k.name,
                                              expr1 |-> Shape(ev.heap, v),
                                              v |-> k.node,
                                              stack1 |-> Locals(ev.heap, ev.stack)])
                              ELSE @],
         ks, k.node)

\* The loop of Evaluator.visitRoot from index i on.  The target of the
\* assignment, block.nodes[i], is fixed before the visit (k.a): when the
\* visit puts a new array into block.nodes, the result goes into the old one.
RootLoop(ev, ks, k) ==
  Let(k.node, LAMBDA block :
  Let(ev.heap[block].val, LAMBDA arr :
     IF k.i >= Len(ev.heap[arr].nodes) THEN Return(ev, ks, block)
     ELSE Visit([ev EXCEPT !.heap[block].index = k.i, !.rootIndex = k.i],
                Append(ks, [k EXCEPT !.a = arr]),
                ev.heap[arr].nodes[k.i + 1])))

\* Evaluator.visitRoot
visitRoot(ev, ks, block) ==
  RootLoop(ev, ks, [K0 EXCEPT !.tag = "root", !.node = block])

visitRootNode(ev, ks, k, v) ==
  RootLoop([ev EXCEPT !.heap[k.a].nodes = SetAt(@, k.i, v)], ks,
           [k EXCEPT !.i = @ + 1])

\* What every name that some frame binds resolves to.
Resolved(h, stack) ==
  [n \in UNION {DOMAIN stack[j].scope : j \in 1..Len(stack)} |->
     Shape(h, StackLookup(h, stack, n))]

\* The end of visitBlock, had it no `this.stack.pop()`.
BlockEndNoPop(ev, ks, k) ==
  Return([ev EXCEPT !.blocks =
            Append(@, k.x @@ [scope2 |-> ev.heap[k.node].flag,
                              depth2 |-> Len(ev.stack),
                              after |-> Resolved(ev.heap, ev.stack),
                              top |-> DOMAIN currentFrame(ev).scope,
                              idents1 |-> Len(ev.idents)])],
         ks, k.node)

\* The end of Evaluator.visitBlock: if (block.scope) this.stack.pop().
BlockEnd(ev, ks, k) ==
  Let(IF ev.heap[k.node].flag THEN pop(ev) ELSE ev, LAMBDA st :
     Return([st EXCEPT !.blocks =
               Append(@, k.x @@ [scope2 |-> ev.heap[k.node].flag,
                                 depth2 |-> Len(st.stack),
                                 after |-> Resolved(st.heap, st.stack),
                                 top |-> DOMAIN currentFrame(st).scope,
                                 idents1 |-> Len(ev.idents)])],
            ks, k.node))

\* The loop of Evaluator.visitBlock from index i on.
BlockLoop(ev, ks, k) ==
  Let(k.node, LAMBDA block :
  Let(ev.heap[block].val, LAMBDA arr :
     IF k.i >= Len(ev.heap[arr].nodes) THEN BlockEnd(ev, ks, k)
     ELSE Visit([ev EXCEPT !.heap[block].index = k.i],
                Append(ks, [k EXCEPT !.a = arr]),
                ev.heap[arr].nodes[k.i + 1])))

\* Evaluator.visitBlock
visitBlock(ev, ks, block) ==
  Let(IF ev.heap[block].flag THEN push(ev, Frame(block)) ELSE ev, LAMBDA st :
     BlockLoop(st, ks,
               [K0 EXCEPT !.tag = "block", !.node = block,
                          !.x = [block |-> block,
                                 scope |-> ev.heap[block].flag,
                                 depth0 |-> Len(ev.stack),
                                 depth1 |-> Len(st.stack),
                                 frame1 |-> currentFrame(st),
                                 before |-> Resolved(ev.heap, ev.stack),
                                 idents0 |-> Len(ev.idents)]]))

visitBlockNode(ev, ks, k, v) ==
  BlockLoop([ev EXCEPT !.heap[k.a].nodes = SetAt(@, k.i, v)], ks,
            [k EXCEPT !.i = @ + 1])

\* The catch clause of Evaluator.visitBlock for a thrown Return: it is put
\* into the array block.nodes is at that moment, and ends the loop.
visitBlockCatch(ev, ks, k, ret) ==
  BlockEnd([ev EXCEPT !.heap[ev.heap[k.node].val].nodes = SetAt(@, k.i, ret)],
           ks, k)

\* The groups whose block has the node as one of its statements.
GroupsOf(h, node) ==
  {g \in 1..Len(h) :
     /\ h[g].k = "group"
     /\ \E j \in 1..Len(NodesOf(h, h[g].val)) : NodesOf(h, h[g].val)[j] = node}

\* What visitIf adds to the log when it returns v: the group it has found in
\* this.group, the groups whose block holds the If, the return flag, the
\* statements of the branch when `ret` is a block, and the statements of the
\* blocks of those groups after the visit.
ifLog(ev, st, k, ret, v) ==
  [node |-> k.node, group |-> k.a, owners |-> GroupsOf(ev.heap, k.node),
   return |-> ev.return, v |-> v,
   branch |-> IF ret # 0 /\ ev.heap[ret].k = "block"
              THEN <<mixin(ev.heap, NodesOf(ev.heap, ret))>> ELSE <<>>,
   blocks |-> [g \in GroupsOf(ev.heap, k.node) |->
                 NodesOf(st.heap, st.heap[g].val)]]

\* The end of Evaluator.visitIf: the selector mixin, or `ret || nodes.null`.
\* k.a is the group that was current when visitIf began.
visitIfEnd(ev, ks, k, ret) ==
  Let(IF /\ k.a # 0
         /\ ret # 0
         /\ ev.heap[ret].k = "block"
         /\ ~ev.return
      THEN [st |-> mixinInto(ev, NodesOf(ev.heap, ret), ev.heap[k.a].val),
            r |-> NullRef]
      ELSE [st |-> ev, r |-> IF ret # 0 THEN ret ELSE NullRef], LAMBDA end :
     Return([end.st EXCEPT !.ifs = Append(@, ifLog(ev, end.st, k, ret, end.r))],
            ks, end.r))

\* The loop over node.elses of Evaluator.visitIf from the k.i-th on; k.b is
\* `ret` so far.
ElsesLoop(ev, ks, k) ==
  Let(ev.heap[k.node].nodes, LAMBDA elses :
  Let(elses[k.i + 1], LAMBDA else :
     CASE k.i >= Len(elses) -> visitIfEnd(ev, ks, k, k.b)
       [] k.i < Len(elses) /\ ev.heap[else].k = "if" ->
            Visit(ev, Append(ks, [k EXCEPT !.tag = "else if"]),
                  ev.heap[else].val)
       [] OTHER -> Visit(ev, Append(ks, [k EXCEPT !.tag = "else"]), else)))

\* Evaluator.visitIf
visitIf(ev, ks, node) ==
  Visit([ev EXCEPT !.return = TRUE],
        Append(ks, [K0 EXCEPT !.tag = "if", !.node = node,
                              !.saved = ev.return, !.a = ev.group]),
        ev.heap[node].val)

visitIfCond(ev, ks, k, v) ==
  Let([ev EXCEPT !.return = k.saved], LAMBDA s :
  Let(toBoolean(s.heap, first(s.heap, v)), LAMBDA ok :
  Let(        Visit(s, Append(ks, [k EXCEPT !.tag = "if block"]),
                    s.heap[k.node].blk), LAMBDA body :
     CASE s.heap[k.node].flag /\ ok = FalseRef -> body
       [] s.heap[k.node].flag /\ ok # FalseRef -> visitIfEnd(s, ks, k, 0)
       [] ~s.heap[k.node].flag /\ ok = TrueRef -> body
       [] OTHER -> ElsesLoop(s, ks, [k EXCEPT !.i = 0, !.b = 0]))))

visitIfBlock(ev, ks, k, v) == visitIfEnd(ev, ks, k, v)

visitElseIfCond(ev, ks, k, v) ==
  IF toBoolean(ev.heap, first(ev.heap, v)) = TrueRef
  THEN Visit(ev, Append(ks, [k EXCEPT !.tag = "if block"]),
             ev.heap[ev.heap[k.node].nodes[k.i + 1]].blk)
  ELSE ElsesLoop(ev, ks, [k EXCEPT !.i = @ + 1])

visitElse(ev, ks, k, v) ==
  ElsesLoop(ev, ks, [k EXCEPT !.i = @ + 1, !.b = v])

\* The files @import finds (utils.lookup over this.paths, then
\* fs.readFileSync and the parser): the statements of the file at `path`,
\* <<>> for a file that is empty.  A path outside FileNames is not found.
FileNames == {"a.styl", "b.styl", "c.styl"}

Files(path) ==
  CASE path = "a.styl" -> << <<"charset", "a1">>, <<"charset", "a2">> >>
    [] path = "b.styl" -> << <<"charset", "b1">>, <<"import", "a">>,
                             <<"charset", "b2">> >>
    [] path = "c.styl" -> <<>>

\* `i++` in place of `++i`: the root is cut at the import itself.
spliceStartAt(rootIndex) == IF rootIndex = -1 THEN 0 ELSE rootIndex

\* `++i` of visitImport, on i = this.rootIndex, where
\* root.nodes.splice(++i, root.nodes.length) cuts the root.  rootIndex -1 is
\* undefined: ++i is NaN, and splice(NaN, n) cuts from index 0.
spliceStart(rootIndex) == IF rootIndex = -1 THEN 0 ELSE rootIndex + 1

\* /\.css$/.test(path)
IsCss(path) == path \in {"x.css"}

\* Evaluator.visitImport
visitImport(ev, ks, import) ==
  Let(ev.root, LAMBDA root :
  Let(spliceStart(ev.rootIndex), LAMBDA i :
  Let(ev.heap[import].name, LAMBDA path :
  Let(path \o ".styl", LAMBDA found :
  Let(ev.heap[root].val, LAMBDA arr :
  Let(ev.heap[arr].nodes, LAMBDA all :
  Let(SubSeq(all, i + 1, Len(all)), LAMBDA rest :
  Let([ev.heap EXCEPT ![arr].nodes = SubSeq(all, 1, i)], LAMBDA cut :
  Let(Parse(cut, root, Files(found)), LAMBDA parsed :
     CASE IsCss(path) -> Return(ev, ks, import)
       [] ~IsCss(path) /\ found \notin FileNames ->
            Throw(ev, ks, import, "failed to locate @import file")
       [] OTHER ->
            Return([ev EXCEPT
                      !.heap = [parsed.h EXCEPT ![arr].nodes = @ \o rest],
                      !.imported =
                         Append(@, [import |-> import, path |-> found,
                                    i |-> ev.rootIndex,
                                    before |-> all,
                                    file |-> parsed.rs,
                                    after |-> parsed.h[arr].nodes \o rest])],
                   ks, NullRef))))))))))

\* The css colors of the model (lib/colors).
colors == {"red"}

\* Evaluator.populateGlobalScope
RECURSIVE populateGlobalScope(_, _)
populateGlobalScope(st, names) ==
  IF names = {} THEN st
  ELSE Let(CHOOSE n \in names : TRUE, LAMBDA name :
       Let(Alloc(st, [Node0 EXCEPT !.k = "color", !.name = name]), LAMBDA color :
          populateGlobalScope(bind(color.st, name, color.r), names \ {name})))

\* The forEach over this.imports of Evaluator.setup, from the k.i-th file on
\* (1-based): this.visit(new nodes.Import(file)).
setupLoop(ev, ks, k) ==
  IF k.i > Len(ev.imports) THEN Return(ev, ks, 0)
  ELSE Let(     Alloc(ev, [Node0 EXCEPT !.k = "import",
                                        !.name = ev.imports[k.i]]), LAMBDA n :
          Visit(n.st, Append(ks, [k EXCEPT !.i = @ + 1]), n.r))

\* Evaluator.setup
setup(ev) ==
  setupLoop(populateGlobalScope(ev, colors), <<>>,
            [K0 EXCEPT !.tag = "setup", !.i = 1])

\* Visitor.prototype.visit: visit<Kind>(node) when the evaluator has the
\* method, the node itself otherwise; undefined has no constructor, and the
\* catch clause of Evaluator.prototype.visit fails on it as well.
Dispatch(ev, ks, node) ==
  Let(ev.heap[node].k, LAMBDA kind :
     CASE node = 0 -> Throw(ev, ks, 0, "TypeError")
       [] node # 0 /\ kind = "group" -> visitGroup(ev, ks, node)
       [] node # 0 /\ kind = "return" -> visitReturn(ev, ks, node)
       [] node # 0 /\ kind = "each" -> visitEach(ev, ks, node)
       [] node # 0 /\ kind = "call" -> visitCall(ev, ks, node)
       [] node # 0 /\ kind = "ident" -> visitIdent(ev, ks, node)
       [] node # 0 /\ kind = "binop" -> visitBinOp(ev, ks, node)
       [] node # 0 /\ kind = "ternary" -> visitTernary(ev, ks, node)
       [] node # 0 /\ kind = "expression" -> visitExpression(ev, ks, node)
       [] node # 0 /\ kind = "property" -> visitProperty(ev, ks, node)
       [] node # 0 /\ kind = "root" -> visitRoot(ev, ks, node)
       [] node # 0 /\ kind = "block" -> visitBlock(ev, ks, node)
       [] node # 0 /\ kind = "if" -> visitIf(ev, ks, node)
       [] node # 0 /\ kind = "import" -> visitImport(ev, ks, node)
       [] OTHER -> Return(ev, ks, node))

\* A nested visit has returned v to the handler that waits at k.
Resume(ev, ks, k, v) ==
  CASE k.tag = "group" -> visitGroupBlock(ev, ks, k, v)
    [] k.tag = "return" -> visitReturnExpr(ev, ks, k, v)
    [] k.tag = "each" -> visitEachExpr(ev, ks, k, v)
    [] k.tag = "each body" -> visitEachBody(ev, ks, k, v)
    [] k.tag = "call" -> visitCallArgs(ev, ks, k, v)
    [] k.tag = "invokeFunction" -> invokeFunctionBody(ev, ks, k, v)
    [] k.tag = "literalCall" -> literalCallArgs(ev, ks, k, v)
    [] k.tag = "ident lookup" -> visitIdentLookup(ev, ks, k, v)
    [] k.tag = "ident assign" -> visitIdentAssign(ev, ks, k, v)
    [] k.tag = "binop left" -> visitBinOpLeft(ev, ks, k, v)
    [] k.tag = "binop right" -> visitBinOpRight(ev, ks, k, v)
    [] k.tag = "ternary" -> visitTernaryCond(ev, ks, k, v)
    [] k.tag = "ternary branch" -> visitTernaryBranch(ev, ks, k, v)
    [] k.tag = "expression" -> visitExpressionNode(ev, ks, k, v)
    [] k.tag = "interpolate" -> interpolateSegment(ev, ks, k, v)
    [] k.tag = "property call" -> visitPropertyCall(ev, ks, k, v)
    [] k.tag = "property" -> visitPropertyExpr(ev, ks, k, v)
    [] k.tag = "root" -> visitRootNode(ev, ks, k, v)
    [] k.tag = "block" -> visitBlockNode(ev, ks, k, v)
    [] k.tag = "if" -> visitIfCond(ev, ks, k, v)
    [] k.tag = "if block" -> visitIfBlock(ev, ks, k, v)
    [] k.tag = "else if" -> visitElseIfCond(ev, ks, k, v)
    [] k.tag = "else" -> visitElse(ev, ks, k, v)
    [] k.tag = "setup" -> setupLoop(ev, ks, k)

\* What was thrown passes the handler that waits at k: visitBlock catches a
\* Return, every other handler lets it pass, through the catch clause of the
\* visit that called the handler.
Propagate(ev, ks, k, thrown) ==
  IF k.tag = "block" /\ thrown.e = "return"
  THEN visitBlockCatch(ev, ks, k, thrown.node)
  ELSE [ev |-> Caught(ev, k.node), ks |-> ks, ctl |-> thrown]

(***************************************************************************)
(* Source texts, as the trees of productions the parser reduces them to.   *)
(***************************************************************************)
U(n) == <<"unit", n>>

Id(name) == <<"ident", name>>

Ex(ts) == <<"expression", ts>>

\* A call in statement position: Parser.function falls to this.expression.
CallStmt(name, args) == Ex(<< <<"call", name, args>> >>)

\* Parser.args of `()`: one expression, and it is empty.
NoArgs == << Ex(<<>>) >>

\* Parser.property: `name: expr`.
Prop(name, expr) == <<"property", << Id(name) >>, expr>>

Assign(name, expr) == <<"assign", name, expr>>

Charset(str) == <<"charset", str>>

Import(path) == <<"import", path>>

Def(name, params, body) == <<"function", name, params, body>>

\* The largest number a source text of the model writes.
MaxUnit == 2

Units == 1..MaxUnit

\* pad(n)
\*   padding: n
Pad == Def("pad", << <<"param", "n">> >>, << Prop("padding", Ex(<<Id("n")>>)) >>)

\* The source texts of the model, by number; a and b are the numbers the
\* text writes.
Program(p, a, b) ==
  CASE p = 1 -> << Charset("u1"), Import("a"), Charset("u2") >>
    [] p = 2 -> << Import("b"), Charset("u1") >>
    [] p = 3 -> << Charset("u1"), Import("c"), Import("a"), Charset("u2") >>
    \* if 1
    \*   @import "a"
    [] p = 4 -> << <<"if", Ex(<<U(1)>>), << Import("a") >>, <<>> >>,
                   Charset("u1") >>
    \* f(x, y = b)
    \*   width: x y
    \* f(a)
    \* f(b, a)
    [] p = 5 -> << Def("f", << <<"param", "x">>,
                               <<"param=", "y", Ex(<<U(b)>>)>> >>,
                       << Prop("width", Ex(<<Id("x"), Id("y")>>)) >>),
                   CallStmt("f", << Ex(<<U(a)>>) >>),
                   CallStmt("f", << Ex(<<U(b)>>), Ex(<<U(a)>>) >>) >>
    \* f(x, y = b)
    \*   return y
    \* r = f(a)
    \* s = f(b, a)
    [] p = 6 -> << Def("f", << <<"param", "x">>,
                               <<"param=", "y", Ex(<<U(b)>>)>> >>,
                       << <<"return", Ex(<<Id("y")>>)>> >>),
                   Assign("r", Ex(<< <<"call", "f", << Ex(<<U(a)>>) >> >> >>)),
                   Assign("s", Ex(<< <<"call", "f", << Ex(<<U(b)>>),
                                                       Ex(<<U(a)>>) >> >> >>)) >>
    \* g(x)
    \*   return x
    \* r = g()
    [] p = 7 -> << Def("g", << <<"param", "x">> >>,
                       << <<"return", Ex(<<Id("x")>>)>> >>),
                   Assign("r", Ex(<< <<"call", "g", NoArgs>> >>)) >>
    \* f(y = b, x)
    \*   width: x y
    \* f(a)
    [] p = 8 -> << Def("f", << <<"param=", "y", Ex(<<U(b)>>)>>,
                               <<"param", "x">> >>,
                       << Prop("width", Ex(<<Id("x"), Id("y")>>)) >>),
                   CallStmt("f", << Ex(<<U(a)>>) >>) >>
    \* x ?= a
    \* x ?= b
    [] p = 9 -> << <<"?=", "x", Ex(<<U(a)>>)>>, <<"?=", "x", Ex(<<U(b)>>)>> >>
    \* add ?= a
    \* red ?= b
    [] p = 10 -> << <<"?=", "add", Ex(<<U(a)>>)>>,
                    <<"?=", "red", Ex(<<U(b)>>)>> >>
    \* body
    \*   if 1
    \*     width: w
    \*   w = a
    [] p = 11 -> << <<"group", "body",
                      << <<"if", Ex(<<U(1)>>),
                           << Prop("width", Ex(<<Id("w")>>)) >>, <<>> >>,
                         Assign("w", Ex(<<U(a)>>)) >> >> >>
    \* body
    \*   for i in a b
    \*     width: i
    \*   height: b
    [] p = 12 -> << <<"group", "body",
                      << <<"for", "i", "", Ex(<<U(a), U(b)>>),
                           << Prop("width", Ex(<<Id("i")>>)) >> >>,
                         Prop("height", Ex(<<U(b)>>)) >> >> >>
    \* f(args...)
    \*   return args
    \* r = f(a)
    \* s = f(b)
    [] p = 13 -> << Def("f", << <<"param...", "args">> >>,
                        << <<"return", Ex(<<Id("args")>>)>> >>),
                    Assign("r", Ex(<< <<"call", "f", << Ex(<<U(a)>>) >> >> >>)),
                    Assign("s", Ex(<< <<"call", "f", << Ex(<<U(b)>>) >> >> >>)) >>
    \* f(x, y = x)
    \*   return y
    \* r = f(a)
    \* s = f(b)
    [] p = 14 -> << Def("f", << <<"param", "x">>,
                                <<"param=", "y", Ex(<<Id("x")>>)>> >>,
                        << <<"return", Ex(<<Id("y")>>)>> >>),
                    Assign("r", Ex(<< <<"call", "f", << Ex(<<U(a)>>) >> >> >>)),
                    Assign("s", Ex(<< <<"call", "f", << Ex(<<U(b)>>) >> >> >>)) >>
    \* f(x)
    \*   if x
    \*     y = a
    \*   return b
    \* r = f(1)
    [] p = 15 -> << Def("f", << <<"param", "x">> >>,
                        << <<"if", Ex(<<Id("x")>>),
                             << Assign("y", Ex(<<U(a)>>)) >>, <<>> >>,
                           <<"return", Ex(<<U(b)>>)>> >>),
                    Assign("r", Ex(<< <<"call", "f", << Ex(<<U(1)>>) >> >> >>)) >>
    \* f(x)
    \*   if x > 1
    \*     return a
    \*   return b
    \* r = f(a)
    \* s = f(b)
    [] p = 16 -> << Def("f", << <<"param", "x">> >>,
                        << <<"if", Ex(<< <<"binop", ">", Id("x"), U(1)>> >>),
                             << <<"return", Ex(<<U(a)>>)>> >>, <<>> >>,
                           <<"return", Ex(<<U(b)>>)>> >>),
                    Assign("r", Ex(<< <<"call", "f", << Ex(<<U(a)>>) >> >> >>)),
                    Assign("s", Ex(<< <<"call", "f", << Ex(<<U(b)>>) >> >> >>)) >>
    \* f(x)
    \*   x + a
    \* r = f(b)
    [] p = 17 -> << Def("f", << <<"param", "x">> >>,
                        << Ex(<< <<"binop", "+", Id("x"), U(a)>> >>) >>),
                    Assign("r", Ex(<< <<"call", "f", << Ex(<<U(b)>>) >> >> >>)) >>
    \* pad(n) ...
    \* body
    \*   pad(a)
    \*   height: b
    [] p = 18 -> << Pad,
                    <<"group", "body",
                      << CallStmt("pad", << Ex(<<U(a)>>) >>),
                         Prop("height", Ex(<<U(b)>>)) >> >> >>
    \* pad(n) ...
    \* body
    \*   if 1
    \*     pad(a)
    \*     pad(b)
    [] p = 19 -> << Pad,
                    <<"group", "body",
                      << <<"if", Ex(<<U(1)>>),
                           << CallStmt("pad", << Ex(<<U(a)>>) >>),
                              CallStmt("pad", << Ex(<<U(b)>>) >>) >>,
                           <<>> >> >> >> >>
    \* pad(n) ...
    \* body
    \*   for i in a b
    \*     pad(i)
    [] p = 20 -> << Pad,
                    <<"group", "body",
                      << <<"for", "i", "", Ex(<<U(a), U(b)>>),
                           << CallStmt("pad", << Ex(<<Id("i")>>) >>) >> >> >> >> >>
    \* m(x)
    \*   if x > 1
    \*     return
    \*   width: a
    \* body
    \*   m(b)
    [] p = 21 -> << Def("m", << <<"param", "x">> >>,
                        << <<"if", Ex(<< <<"binop", ">", Id("x"), U(1)>> >>),
                             << <<"return">> >>, <<>> >>,
                           Prop("width", Ex(<<U(a)>>)) >>),
                    <<"group", "body",
                      << CallStmt("m", << Ex(<<U(b)>>) >>) >> >> >>
    \* r = add(a, b)
    \* s = unit(a)
    \* t = calc(b)
    [] p = 22 -> << Assign("r", Ex(<< <<"call", "add", << Ex(<<U(a)>>),
                                                          Ex(<<U(b)>>) >> >> >>)),
                    Assign("s", Ex(<< <<"call", "unit", << Ex(<<U(a)>>) >> >> >>)),
                    Assign("t", Ex(<< <<"call", "calc", << Ex(<<U(b)>>) >> >> >>)) >>
    \* add = a
    \* r = add(b)
    [] p = 23 -> << Assign("add", Ex(<<U(a)>>)),
                    Assign("r", Ex(<< <<"call", "add", << Ex(<<U(b)>>) >> >> >>)) >>
    \* add(x)
    \*   return x
    \* g = add
    \* r = add(a)
    \* s = g(b)
    [] p = 24 -> << Def("add", << <<"param", "x">> >>,
                        << <<"return", Ex(<<Id("x")>>)>> >>),
                    Assign("g", Ex(<<Id("add")>>)),
                    Assign("r", Ex(<< <<"call", "add", << Ex(<<U(a)>>) >> >> >>)),
                    Assign("s", Ex(<< <<"call", "g", << Ex(<<U(b)>>) >> >> >>)) >>
    \* f(x, add...)
    \*   return add(a)
    \* r = f(b)
    [] p = 25 -> << Def("f", << <<"param", "x">>, <<"param...", "add">> >>,
                        << <<"return", Ex(<< <<"call", "add",
                                               << Ex(<<U(a)>>) >> >> >>)>> >>),
                    Assign("r", Ex(<< <<"call", "f", << Ex(<<U(b)>>) >> >> >>)) >>
    \* x = add
    \* y = x
    \* z = w
    [] p = 26 -> << Assign("x", Ex(<<Id("add")>>)),
                    Assign("y", Ex(<<Id("x")>>)),
                    Assign("z", Ex(<<Id("w")>>)) >>
    \* pad(n) ...
    \* body
    \*   pad: a
    \*   height: b
    [] p = 27 -> << Pad,
                    <<"group", "body",
                      << Prop("pad", Ex(<<U(a)>>)),
                         Prop("height", Ex(<<U(b)>>)) >> >> >>
    \* f()
    \*   f()
    \* f()
    [] p = 28 -> << Def("f", <<>>, << CallStmt("f", NoArgs) >>),
                    CallStmt("f", NoArgs) >>
    \* f()
    \*   f()
    \* body
    \*   f: 1
    [] p = 29 -> << Def("f", <<>>, << CallStmt("f", NoArgs) >>),
                    <<"group", "body", << Prop("f", Ex(<<U(1)>>)) >> >> >>
    \* f(x, rest...)
    \*   if x
    \*     y = f(0, b)
    \*   return rest
    \* r = f(1, a)
    \* f(x)
    \*   return x
    \* r = f(a)
    \* s = f()
    [] p = 31 -> << Def("f", << <<"param", "x">> >>,
                        << <<"return", Ex(<<Id("x")>>)>> >>),
                    Assign("r", Ex(<< <<"call", "f", << Ex(<<U(a)>>) >> >> >>)),
                    Assign("s", Ex(<< <<"call", "f", NoArgs>> >>)) >>
    \* body
    \*   a
    \*     height: a
    \*   if 1
    \*     width: b
    [] p = 32 -> << <<"group", "body",
                      << <<"group", "a", << Prop("height", Ex(<<U(a)>>)) >> >>,
                         <<"if", Ex(<<U(1)>>),
                           << Prop("width", Ex(<<U(b)>>)) >>, <<>> >> >> >> >>
    \* f(x)
    \*   return x
    \* foo(f(a))
    [] p = 33 -> << Def("f", << <<"param", "x">> >>,
                        << <<"return", Ex(<<Id("x")>>)>> >>),
                    CallStmt("foo", << Ex(<< <<"call", "f",
                                             << Ex(<<U(a)>>) >> >> >>) >>) >>
    \* f(x)
    \*   return x
    \* body
    \*   if 0
    \*     width: a
    \*   else if f(1)
    \*     height: b
    [] p = 34 -> << Def("f", << <<"param", "x">> >>,
                        << <<"return", Ex(<<Id("x")>>)>> >>),
                    <<"group", "body",
                      << <<"if", Ex(<<U(0)>>),
                           << Prop("width", Ex(<<U(a)>>)) >>,
                           << <<"else if",
                                Ex(<< <<"call", "f", << Ex(<<U(1)>>) >> >> >>),
                                << Prop("height", Ex(<<U(b)>>)) >> >> >> >> >> >> >>
    \* x = a
    \* body
    \*   x = b
    \*   width: x
    \* if 1
    \*   y = b
    \* body
    \*   for i in a
    \*     z = i
    \*   height: z
    \* r = x
    [] p = 35 -> << Assign("x", Ex(<<U(a)>>)),
                    <<"group", "body",
                      << Assign("x", Ex(<<U(b)>>)),
                         Prop("width", Ex(<<Id("x")>>)) >> >>,
                    <<"if", Ex(<<U(1)>>),
                      << Assign("y", Ex(<<U(b)>>)) >>, <<>> >>,
                    <<"group", "body",
                      << <<"for", "i", "", Ex(<<U(a)>>),
                           << Assign("z", Ex(<<Id("i")>>)) >> >>,
                         Prop("height", Ex(<<Id("z")>>)) >> >>,
                    Assign("r", Ex(<<Id("x")>>)) >>
    \* f(x)
    \*   f: x
    \* g = f
    \* body
    \*   g(a)
    \*   f(b)
    [] p = 36 -> << Def("f", << <<"param", "x">> >>,
                        << Prop("f", Ex(<<Id("x")>>)) >>),
                    Assign("g", Ex(<<Id("f")>>)),
                    <<"group", "body",
                      << CallStmt("g", << Ex(<<U(a)>>) >>),
                         CallStmt("f", << Ex(<<U(b)>>) >>) >> >> >>
    \* f()
    \*   return a
    \* body
    \*   f()
    \*   width: b
    \*   height: a
    [] p = 37 -> << Def("f", <<>>, << <<"return", Ex(<<U(a)>>)>> >>),
                    <<"group", "body",
                      << CallStmt("f", NoArgs),
                         Prop("width", Ex(<<U(b)>>)),
                         Prop("height", Ex(<<U(a)>>)) >> >> >>
    [] p = 30 -> << Def("f", << <<"param", "x">>, <<"param...", "rest">> >>,
                        << <<"if", Ex(<<Id("x")>>),
                             << Assign("y", Ex(<< <<"call", "f",
                                                    << Ex(<<U(0)>>),
                                                       Ex(<<U(b)>>) >> >> >>)) >>,
                             <<>> >>,
                           <<"return", Ex(<<Id("rest")>>)>> >>),
                    Assign("r", Ex(<< <<"call", "f", << Ex(<<U(1)>>),
                                                        Ex(<<U(a)>>) >> >> >>)) >>

(***************************************************************************)
(* The run of the compiler on one source text: parse, new Evaluator (with  *)
(* its setup), evaluate.                                                   *)
(***************************************************************************)
VARIABLES
  input,   \* the source text and the options of the run
  ev,      \* the Evaluator object, with the heap of nodes it works on
  ctl,     \* what the evaluator does next
  ks,      \* the handlers that wait for a nested visit, innermost last
  pc,      \* "parsed", "setup", "constructed", "running", "done", "failed"
  error    \* the error the run ended with, "" when none

vars == <<input, ev, ctl, ks, pc, error>>

\* The options a run is given.
HostFunctions == {{}, {"add"}}

OptionImports == {<<>>, <<"a">>, <<"a", "x">>, <<"a", "b">>}

\* The runs of the model: every source text with the numbers it writes, host
\* functions for the texts that name one, option imports for the texts that
\* import.
Run(ps, as, bs, fs, is) ==
  {[p |-> p, a |-> a, b |-> b, functions |-> f, imports |-> i] :
     p \in ps, a \in as, b \in bs, f \in fs, i \in is}

Inputs ==
  Run(1..4, {1}, {1}, {{}}, OptionImports)
    \cup Run({5, 6, 8, 9} \cup (12..21) \cup {27} \cup (30..37), Units, Units, {{}}, {<<>>})
    \cup Run({7, 28, 29}, {1}, {1}, {{}}, {<<>>})
    \cup Run({11}, Units, {1}, {{}}, {<<>>})
    \cup Run({10, 22, 25}, Units, Units, HostFunctions, {<<>>})
    \cup Run({23, 24, 26}, Units, {1}, HostFunctions, {<<>>})

\* stylus.parse(str): a new Root holding the statements of the text.
ParseRoot(ts) ==
  Let(New(Heap0, [Node0 EXCEPT !.k = "array"]), LAMBDA arr :
  Let(        New(arr.h, [Node0 EXCEPT !.k = "root", !.val = arr.r,
                                       !.flag = TRUE]), LAMBDA root :
     [h |-> Parse(root.h, root.r, ts).h, r |-> root.r]))

\* The evaluator before its constructor has run.
Evaluator0(in) ==
  Let(ParseRoot(Program(in.p, in.a, in.b)), LAMBDA root :
     [heap |-> root.h, root |-> root.r, stack |-> <<>>, calling |-> <<>>,
      return |-> FALSE, group |-> 0, rootIndex |-> -1, lineno |-> 0, raised |-> 0, modes |-> <<>>, depths |-> <<>>, blocks |-> <<>>, properties |-> <<>>, visited |-> {},
      functions |-> in.functions, imports |-> in.imports,
      calls |-> <<>>, active |-> <<>>, binds |-> <<>>, invokes |-> <<>>,
      evals |-> <<>>, mixes |-> <<>>, eachs |-> <<>>, ifs |-> <<>>, props |-> <<>>, imported |-> <<>>,
      idents |-> <<>>, defaults |-> <<>>])

Idle == [op |-> "", node |-> 0, e |-> ""]

Init ==
  /\ input \in Inputs
  /\ ev = Evaluator0(input)
  /\ ctl = Idle
  /\ ks = <<>>
  /\ pc = "parsed"
  /\ error = ""

\* The evaluator and the handlers that wait are as the step r leaves them,
\* and what r asks for is next.
Step(r) == ev' = r.ev /\ ks' = r.ks /\ ctl' = r.ctl

\* new Evaluator(root, options), up to the first import of setup: the global
\* frame, then this.setup().
Evaluator ==
  /\ pc = "parsed"
  /\ Step(setup(push(ev, Frame(ev.root))))
  /\ pc' = "setup"
  /\ UNCHANGED <<input, error>>

\* setup() returns: this.calling = [], and the evaluator is constructed.
Constructed ==
  /\ pc = "setup"
  /\ ctl.op = "return"
  /\ ks = <<>>
  /\ ev' = [ev EXCEPT !.calling = <<>>]
  /\ ctl' = Idle
  /\ pc' = "constructed"
  /\ UNCHANGED <<input, ks, error>>

\* setup() throws, and so does the constructor.
EvaluatorThrows ==
  /\ pc = "setup"
  /\ ctl.op = "throw"
  /\ ks = <<>>
  /\ pc' = "failed"
  /\ error' = ctl.e
  /\ UNCHANGED <<input, ev, ctl, ks>>

\* Evaluator.evaluate: this.visit(this.root).
evaluate ==
  /\ pc = "constructed"
  /\ pc' = "running"
  /\ ctl' = [op |-> "visit", node |-> ev.root, e |-> ""]
  /\ UNCHANGED <<input, ev, ks, error>>

\* this.visit(node): the handler of the node runs up to its first nested
\* visit, or to its end.
VisitNode ==
  /\ pc \in {"setup", "running"}
  /\ ctl.op = "visit"
  /\ Step(Dispatch([ev EXCEPT !.modes =
                       SubSeq(@ \o [j \in 1..Len(ks) |-> ev.return],
                              1, Len(ks)) \o <<ev.return>>,
                              !.depths =
                       SubSeq(@ \o [j \in 1..Len(ks) |-> Len(ev.stack)],
                              1, Len(ks)) \o <<Len(ev.stack)>>,
                              !.visited = @ \cup {ctl.node}],
                   ks, ctl.node))
  /\ UNCHANGED <<input, pc, error>>

\* A nested visit returns: the handler that waits for it goes on.
ReturnValue ==
  /\ pc \in {"setup", "running"}
  /\ ctl.op = "return"
  /\ ks # <<>>
  /\ Step(Resume(ev, SubSeq(ks, 1, Len(ks) - 1), ks[Len(ks)], ctl.node))
  /\ UNCHANGED <<input, pc, error>>

\* A nested visit throws: the handler that waits for it catches, or is left.
Unwind ==
  /\ pc \in {"setup", "running"}
  /\ ctl.op = "throw"
  /\ ks # <<>>
  /\ Step(Propagate(ev, SubSeq(ks, 1, Len(ks) - 1), ks[Len(ks)], ctl))
  /\ UNCHANGED <<input, pc, error>>

\* evaluate() returns the root.
evaluateReturns ==
  /\ pc = "running"
  /\ ctl.op = "return"
  /\ ks = <<>>
  /\ pc' = "done"
  /\ UNCHANGED <<input, ev, ctl, ks, error>>

\* evaluate() throws.
evaluateThrows ==
  /\ pc = "running"
  /\ ctl.op = "throw"
  /\ ks = <<>>
  /\ pc' = "failed"
  /\ error' = ctl.e
  /\ UNCHANGED <<input, ev, ctl, ks>>

Next ==
  \/ Evaluator
  \/ Constructed
  \/ EvaluatorThrows
  \/ evaluate
  \/ VisitNode
  \/ ReturnValue
  \/ Unwind
  \/ evaluateReturns
  \/ evaluateThrows

Spec == Init /\ [][Next]_vars


(***************************************************************************)
(* this.calling on its own.  visitCall and visitProperty are the only      *)
(* handlers that touch the list; the run below is of a source text whose   *)
(* functions call on, as a call statement or as a property named after a   *)
(* function, and return.  ev holds the list and the invocations in         *)
(* progress, ks the handlers that wait: a "call" entry for a visitCall     *)
(* that evaluates the body of its function, a "property call" entry for a  *)
(* visitProperty that waits for the Call it made.                          *)
(***************************************************************************)
\* The functions the source text defines.
CallNames == {"f"}

InitCalls ==
  /\ input = [p |-> 0, a |-> 1, b |-> 1, functions |-> {}, imports |-> <<>>]
  /\ ev = [calling |-> <<>>, active |-> <<>>]
  /\ ctl = Idle
  /\ ks = <<>>
  /\ pc = "running"
  /\ error = ""

\* A statement is evaluated at the root or in the body of the innermost
\* invocation: no visitProperty waits innermost.
InBody == IF ks = <<>> THEN TRUE ELSE ks[Len(ks)].tag = "call"

\* The effect on the list of visitCall for a call to the function `name`, up
\* to the evaluation of the function's body: this.calling.push(call.name),
\* then the guard.
Calling(calling, name) ==
  LET pushed == Append(calling, name)
  IN [calling |-> pushed,
      e |-> IF Len(pushed) > MaxCallStackSize
            THEN "Maximum call stack size exceeded" ELSE ""]

\* A call statement `name()`.
visitCallStatement(name) ==
  /\ pc = "running"
  /\ InBody
  /\ LET r == Calling(ev.calling, name)
     IN /\ ev' = [calling |-> r.calling, active |-> Append(ev.active, name)]
        /\ error' = r.e
        /\ pc' = IF r.e = "" THEN "running" ELSE "failed"
        /\ ks' = IF r.e = "" THEN Append(ks, [K0 EXCEPT !.tag = "call",
                                                        !.name = name])
                 ELSE ks
  /\ UNCHANGED <<input, ctl>>

\* A property `name: expr` whose name is a function's and is not in the
\* list (`literal` is 0): visitProperty pushes the name and visits
\* new nodes.Call(name, prop.expr).
visitPropertyStatement(name) ==
  /\ pc = "running"
  /\ InBody
  /\ \A j \in 1..Len(ev.calling) : ev.calling[j] # name
  /\ LET r == Calling(Append(ev.calling, name), name)
     IN /\ ev' = [calling |-> r.calling, active |-> Append(ev.active, name)]
        /\ error' = r.e
        /\ pc' = IF r.e = "" THEN "running" ELSE "failed"
        /\ ks' = IF r.e = ""
                 THEN ks \o << [K0 EXCEPT !.tag = "property call",
                                          !.name = name],
                               [K0 EXCEPT !.tag = "call", !.name = name] >>
                 ELSE Append(ks, [K0 EXCEPT !.tag = "property call",
                                            !.name = name])
  /\ UNCHANGED <<input, ctl>>

\* The body of the innermost invocation is done: this.calling.pop() of
\* visitCall.
visitCallEnd ==
  /\ pc = "running"
  /\ ks # <<>>
  /\ ks[Len(ks)].tag = "call"
  /\ ev' = [calling |-> SubSeq(ev.calling, 1, Len(ev.calling) - 1),
            active |-> SubSeq(ev.active, 1, Len(ev.active) - 1)]
  /\ ks' = SubSeq(ks, 1, Len(ks) - 1)
  /\ UNCHANGED <<input, ctl, pc, error>>

\* The Call a visitProperty made has returned: this.calling.pop() of
\* visitProperty.
visitPropertyEnd ==
  /\ pc = "running"
  /\ ks # <<>>
  /\ ks[Len(ks)].tag = "property call"
  /\ ev' = [ev EXCEPT !.calling = SubSeq(@, 1, Len(@) - 1)]
  /\ ks' = SubSeq(ks, 1, Len(ks) - 1)
  /\ UNCHANGED <<input, ctl, pc, error>>

NextCalls ==
  \/ \E name \in CallNames : visitCallStatement(name)
  \/ \E name \in CallNames : visitPropertyStatement(name)
  \/ visitCallEnd
  \/ visitPropertyEnd

SpecCalls == InitCalls /\ [][NextCalls]_vars
(***************************************************************************)
(* The parser on the value of a property: Parser.property, and of the      *)
(* chain list, expression, negation, ..., multiplicative, defined, unary,  *)
(* subscript, primary the levels that act on the tokens of the model: a    *)
(* unit, `/`, `(` and `)`.  Here `input` is the tokens the lexer gives     *)
(* after the name of the property, `ev` the Parser object with the tokens  *)
(* it has consumed (i), `ks` the getters that wait for a nested one, and   *)
(* ctl.op the place in the code:                                           *)
(*   "negation"  the while loop of expression calls this.negation          *)
(*   "operand"   multiplicative calls this.defined for the right operand   *)
(*   "ops"       the while loop of multiplicative looks for an operator;   *)
(*               ctl.node is 0 when `node` is undefined, 1 otherwise       *)
(*   "end"       an expression has returned                                *)
(***************************************************************************)
MaxTokens == 6

TokenTypes == {"unit", "/", "(", ")"}

TokenSeqs == UNION {[1..n -> TokenTypes] : n \in 0..MaxTokens}

\* this.peek.type: past the last token the lexer gives eos.
peek(tokens, parser) ==
  IF parser.i < Len(tokens) THEN tokens[parser.i + 1] ELSE "eos"

\* this.next
next(parser) == [parser EXCEPT !.i = @ + 1]

\* The `(` of the primaries that wait for their `)`.
OpenParens(frames) == Len(SelectSeq(frames, LAMBDA f : f.tag = "primary"))

Parser0 ==
  [i |-> 0, parens |-> FALSE, inProperty |-> FALSE, operand |-> FALSE,
   slashes |-> <<>>]

At(op, node) == [op |-> op, node |-> node, e |-> ""]

InitProperty ==
  /\ input \in TokenSeqs
  /\ ev = Parser0
  /\ ctl = Idle
  /\ ks = <<>>
  /\ pc = "parsed"
  /\ error = ""

\* Parser.property, from this.inProperty = true to the call of this.list,
\* which calls this.expression.
property ==
  /\ pc = "parsed"
  /\ ev' = [ev EXCEPT !.inProperty = TRUE]
  /\ ks' = <<[tag |-> "list", from |-> ""]>>
  /\ ctl' = At("negation", 0)
  /\ pc' = "running"
  /\ UNCHANGED <<input, error>>

\* Parser.primary on `(`: this.parens = true, then this.expression.
primaryParens ==
  /\ pc = "running"
  /\ ctl.op \in {"negation", "operand"}
  /\ peek(input, ev) = "("
  /\ ev' = [next(ev) EXCEPT !.parens = TRUE]
  /\ ks' = Append(ks, [tag |-> "primary", from |-> ctl.op])
  /\ ctl' = At("negation", 0)
  /\ UNCHANGED <<input, pc, error>>

\* Parser.primary on a primitive: return this.next.val.  As the right operand
\* it completes the BinOp of multiplicative, and this.operand = false.
primaryPrimitive ==
  /\ pc = "running"
  /\ ctl.op \in {"negation", "operand"}
  /\ peek(input, ev) = "unit"
  /\ ev' = [next(ev) EXCEPT !.operand = IF ctl.op = "operand" THEN FALSE ELSE @]
  /\ ctl' = At("ops", 1)
  /\ UNCHANGED <<input, ks, pc, error>>

\* Parser.primary on any other token returns undefined.  As the right operand
\* the BinOp is built all the same.
primaryUndefined ==
  /\ pc = "running"
  /\ ctl.op \in {"negation", "operand"}
  /\ peek(input, ev) \notin {"(", "unit"}
  /\ ev' = [ev EXCEPT !.operand = IF ctl.op = "operand" THEN FALSE ELSE @]
  /\ ctl' = At("ops", IF ctl.op = "operand" THEN 1 ELSE 0)
  /\ UNCHANGED <<input, ks, pc, error>>

\* The while loop of Parser.multiplicative accepts `/`: the literal separator
\* when `this.inProperty && !this.parens`, the expression of node and
\* separator being returned to the loop of expression; a BinOp otherwise,
\* which throws on an undefined node.
multiplicative ==
  /\ pc = "running"
  /\ ctl.op = "ops"
  /\ peek(input, ev) = "/"
  /\ IF ev.inProperty /\ ~ev.parens
     THEN /\ ev' = [next(ev) EXCEPT
                      !.operand = TRUE,
                      !.slashes = Append(@, [at |-> ev.i + 1, made |-> "literal",
                                             open |-> OpenParens(ks)])]
          /\ ctl' = At("negation", 0)
          /\ UNCHANGED <<pc, error>>
     ELSE IF ctl.node = 0
     THEN /\ ev' = [next(ev) EXCEPT !.operand = TRUE]
          /\ pc' = "failed"
          /\ error' = "illegal unary /"
          /\ UNCHANGED ctl
     ELSE /\ ev' = [next(ev) EXCEPT
                      !.operand = TRUE,
                      !.slashes = Append(@, [at |-> ev.i + 1, made |-> "binop",
                                             open |-> OpenParens(ks)])]
          /\ ctl' = At("operand", 0)
          /\ UNCHANGED <<pc, error>>
  /\ UNCHANGED <<input, ks>>

\* Parser.multiplicative finds no operator and returns node, through the
\* levels above it, to the while loop of Parser.expression: a node is pushed
\* and the loop goes on, undefined ends the loop and the expression returns.
multiplicativeReturns ==
  /\ pc = "running"
  /\ ctl.op = "ops"
  /\ peek(input, ev) # "/"
  /\ ctl' = IF ctl.node = 0 THEN At("end", 0) ELSE At("negation", 0)
  /\ UNCHANGED <<input, ev, ks, pc, error>>

\* Parser.primary, from this.expect(')') on: this.parens = false, and the
\* expression is the primary.
primaryExpect ==
  /\ pc = "running"
  /\ ctl.op = "end"
  /\ ks[Len(ks)].tag = "primary"
  /\ IF peek(input, ev) = ")"
     THEN /\ ev' = [next(ev) EXCEPT
                      !.parens = FALSE,
                      !.operand = IF ks[Len(ks)].from = "operand" THEN FALSE
                                  ELSE @]
          /\ ks' = SubSeq(ks, 1, Len(ks) - 1)
          /\ ctl' = At("ops", 1)
          /\ UNCHANGED <<pc, error>>
     ELSE /\ pc' = "failed"
          /\ error' = "expected )"
          /\ UNCHANGED <<ev, ks, ctl>>
  /\ UNCHANGED input

\* Parser.property, from the return of this.list on.
propertyReturns ==
  /\ pc = "running"
  /\ ctl.op = "end"
  /\ ks[Len(ks)].tag = "list"
  /\ ev' = [ev EXCEPT !.inProperty = FALSE]
  /\ ks' = <<>>
  /\ ctl' = Idle
  /\ pc' = "done"
  /\ UNCHANGED <<input, error>>

NextProperty ==
  \/ property
  \/ primaryParens
  \/ primaryPrimitive
  \/ primaryUndefined
  \/ multiplicative
  \/ multiplicativeReturns
  \/ primaryExpect
  \/ propertyReturns

SpecProperty == InitProperty /\ [][NextProperty]_vars

(***************************************************************************)
(* The parser on blocks: Parser.parse, Parser.statement and Parser.block   *)
(* on the tokens `sel` (the tokens of a selector, after which              *)
(* Parser.selector calls this.block), `prop` (the tokens of a property),   *)
(* `{`, `}`, indent and outdent.  Here `input` is the tokens of the        *)
(* lexer, `ev` the Parser object with the tokens it has consumed (i), its  *)
(* css flag (0 for undefined, otherwise the place of the `{` token that    *)
(* this.accept returned) and the blocks that have returned, `ks` the calls *)
(* of block that wait for a statement, and ctl.op the place in the code:   *)
(*   "root"       the while loop of parse                                  *)
(*   "statement"  this.statement is called                                 *)
(*   "block"      Parser.selector calls this.block                         *)
(*   "loop"       the while loop of block                                  *)
(***************************************************************************)
MaxNesting == 2

\* The token streams of well-formed sources: one or two statements, each a
\* property or a selector with a block in either style.
RECURSIVE Statements(_)
Statements(depth) ==
  LET prop == {<<"prop">>}
      blocks == IF depth = 0 THEN {}
                ELSE {<<"sel", "{">> \o s \o <<"}">> : s \in Statements(depth - 1)}
                     \cup {<<"sel", "indent">> \o s \o <<"outdent">> :
                             s \in Statements(depth - 1)}
  IN  prop \cup blocks
      \cup {s \o <<"prop">> : s \in prop \cup blocks}
      \cup {<<"prop">> \o s : s \in blocks}

\* The sources the parser is given: the well-formed ones, and those that
\* end early.
Sources ==
  UNION {{SubSeq(s, 1, n) : n \in 0..Len(s)} : s \in Statements(MaxNesting)}

BlockParser0 == [i |-> 0, css |-> 0, blocks |-> <<>>]

\* this.skipWhitespace on the tokens of the model.
RECURSIVE skipWhitespace(_, _)
skipWhitespace(tokens, parser) ==
  IF peek(tokens, parser) \in {"indent", "outdent"}
  THEN skipWhitespace(tokens, next(parser))
  ELSE parser

InitBlock ==
  /\ input \in Sources
  /\ ev = BlockParser0
  /\ ctl = Idle
  /\ ks = <<>>
  /\ pc = "parsed"
  /\ error = ""

\* Parser.parse up to its while loop.
parse ==
  /\ pc = "parsed"
  /\ ctl' = At("root", 0)
  /\ pc' = "running"
  /\ UNCHANGED <<input, ev, ks, error>>

\* The while loop of Parser.parse: at eos the root is returned, otherwise
\* this.statement is called.
parseLoop ==
  /\ pc = "running"
  /\ ctl.op = "root"
  /\ IF peek(input, ev) = "eos"
     THEN pc' = "done" /\ ctl' = Idle
     ELSE pc' = pc /\ ctl' = At("statement", 0)
  /\ UNCHANGED <<input, ev, ks, error>>

\* What the caller of this.statement does with the statement: the css branch
\* of the loop of block goes on with this.skipWhitespace.
AfterStatement(tokens, parser, frames) ==
  IF frames = <<>> THEN [ev |-> parser, ctl |-> At("root", 0)]
  ELSE [ev |-> IF frames[Len(frames)].css
               THEN skipWhitespace(tokens, parser) ELSE parser,
        ctl |-> At("loop", 0)]

\* Parser.statement on the tokens of a property.
statementProperty ==
  /\ pc = "running"
  /\ ctl.op = "statement"
  /\ peek(input, ev) = "prop"
  /\ ev' = AfterStatement(input, next(ev), ks).ev
  /\ ctl' = AfterStatement(input, next(ev), ks).ctl
  /\ UNCHANGED <<input, ks, pc, error>>

\* Parser.statement on the tokens of a selector: Parser.selector, up to
\* group.block = this.block(group).
selector ==
  /\ pc = "running"
  /\ ctl.op = "statement"
  /\ peek(input, ev) = "sel"
  /\ ev' = next(ev)
  /\ ctl' = At("block", 0)
  /\ UNCHANGED <<input, ks, pc, error>>

\* Parser.statement on any other token: no statement starts with it.
statementThrows ==
  /\ pc = "running"
  /\ ctl.op = "statement"
  /\ peek(input, ev) \notin {"prop", "sel"}
  /\ pc' = "failed"
  /\ error' = "unexpected " \o peek(input, ev)
  /\ ctl' = Idle
  /\ UNCHANGED <<input, ev, ks>>

\* Parser.block up to its while loop: _ = this.css, then
\* this.css = this.accept('{'), or this.expect('indent').
block ==
  /\ pc = "running"
  /\ ctl.op = "block"
  /\ IF peek(input, ev) = "{"
     THEN /\ ev' = skipWhitespace(input, [next(ev) EXCEPT !.css = ev.i + 1])
          /\ ks' = Append(ks, [saved |-> ev.css, delim |-> "}", css |-> FALSE])
          /\ ctl' = At("loop", 0)
          /\ UNCHANGED <<pc, error>>
     ELSE IF peek(input, ev) = "indent"
     THEN /\ ev' = [next(ev) EXCEPT !.css = 0]
          /\ ks' = Append(ks, [saved |-> ev.css, delim |-> "outdent", css |-> FALSE])
          /\ ctl' = At("loop", 0)
          /\ UNCHANGED <<pc, error>>
     ELSE /\ pc' = "failed"
          /\ error' = "expected indent"
          /\ ev' = [ev EXCEPT !.css = 0]
          /\ ctl' = Idle
          /\ UNCHANGED ks
  /\ UNCHANGED input

\* The while loop of Parser.block on a token that is not the delimiter:
\* this.statement is called, in the branch that this.css selects.
blockLoop ==
  /\ pc = "running"
  /\ ctl.op = "loop"
  /\ peek(input, ev) # ks[Len(ks)].delim
  /\ ks' = [ks EXCEPT ![Len(ks)].css = (ev.css # 0)]
  /\ ctl' = At("statement", 0)
  /\ UNCHANGED <<input, ev, pc, error>>

\* Parser.block after its while loop: the css branch expects `}` and sets
\* this.css = _, the other branch expects outdent.  The block goes back to
\* Parser.selector, and the group to the caller of this.statement.
blockReturns ==
  /\ pc = "running"
  /\ ctl.op = "loop"
  /\ peek(input, ev) = ks[Len(ks)].delim
  /\ IF ev.css # 0
     THEN Let(skipWhitespace(input, ev), LAMBDA p :
          IF peek(input, p) = "}"
          THEN Let([next(p) EXCEPT
                      !.css = ks[Len(ks)].saved,
                      !.blocks = Append(@, [entry |-> ks[Len(ks)].saved,
                                            exit |-> ks[Len(ks)].saved,
                                            delim |-> ks[Len(ks)].delim])],
               LAMBDA q :
               /\ ev' = AfterStatement(input, q, SubSeq(ks, 1, Len(ks) - 1)).ev
               /\ ctl' = AfterStatement(input, q, SubSeq(ks, 1, Len(ks) - 1)).ctl
               /\ ks' = SubSeq(ks, 1, Len(ks) - 1)
               /\ UNCHANGED <<pc, error>>)
          ELSE /\ pc' = "failed"
               /\ error' = "expected }"
               /\ ev' = p
               /\ ctl' = Idle
               /\ UNCHANGED ks)
     ELSE IF peek(input, ev) = "outdent"
     THEN Let([next(ev) EXCEPT
                 !.blocks = Append(@, [entry |-> ks[Len(ks)].saved,
                                       exit |-> ev.css,
                                       delim |-> ks[Len(ks)].delim])],
          LAMBDA q :
          /\ ev' = AfterStatement(input, q, SubSeq(ks, 1, Len(ks) - 1)).ev
          /\ ctl' = AfterStatement(input, q, SubSeq(ks, 1, Len(ks) - 1)).ctl
          /\ ks' = SubSeq(ks, 1, Len(ks) - 1)
          /\ UNCHANGED <<pc, error>>)
     ELSE /\ pc' = "failed"
          /\ error' = "expected outdent"
          /\ ctl' = Idle
          /\ UNCHANGED <<ev, ks>>
  /\ UNCHANGED input

NextBlock ==
  \/ parse
  \/ parseLoop
  \/ statementProperty
  \/ selector
  \/ statementThrows
  \/ block
  \/ blockLoop
  \/ blockReturns

SpecBlock == InitBlock /\ [][NextBlock]_vars

(***************************************************************************)
(* The command line program bin/stylus.  Here `input` is the arguments of  *)
(* the process, the chunks that stdin delivers, and whether the source     *)
(* they make up compiles; `ev` holds the variables of the script (args,    *)
(* compare, compress, str), the lines written by console.log (out) and the *)
(* calls of the library (jobs); `ks` is the chunks stdin has not delivered *)
(* yet; pc is "parsed" while the script handles its arguments, "running"   *)
(* once it listens to stdin, then "done", "exited" or "failed".            *)
(***************************************************************************)
MaxArgs == 2

MaxChunks == 2

Flags == {"-h", "--help", "-c", "--css", "--compress", "-C", "--compare", "-d"}

Chunks == {"a", "b"}

Cli0 ==
  [args |-> <<>>, compare |-> FALSE, compress |-> FALSE, str |-> <<>>,
   out |-> <<>>, jobs |-> <<>>]

InitCli ==
  /\ input \in [args : UNION {[1..n -> Flags] : n \in 0..MaxArgs},
                chunks : UNION {[1..n -> Chunks] : n \in 0..MaxChunks},
                compiles : BOOLEAN]
  /\ ev = [Cli0 EXCEPT !.args = input.args]
  /\ ks = input.chunks
  /\ ctl = Idle
  /\ pc = "parsed"
  /\ error = ""

\* One turn of `while (args.length)`: arg = args.shift() and the switch.
handleArgument ==
  /\ pc = "parsed"
  /\ ev.args # <<>>
  /\ Let(ev.args[1], LAMBDA arg :
     Let([ev EXCEPT !.args = Tail(@)], LAMBDA s :
        CASE arg \in {"-h", "--help"} ->
               /\ ev' = [s EXCEPT !.out = Append(@, "usage")]
               /\ pc' = "exited"
          [] arg \in {"-C", "--compare"} ->
               /\ ev' = [s EXCEPT !.compare = TRUE]
               /\ pc' = pc
          [] arg \in {"-c", "--compress"} ->
               /\ ev' = [s EXCEPT !.compress = TRUE]
               /\ pc' = pc
          [] OTHER ->
               /\ ev' = s
               /\ pc' = pc))
  /\ UNCHANGED <<input, ctl, ks, error>>

\* var str = '', stdin = process.openStdin(), and the two stdin.on.
openStdin ==
  /\ pc = "parsed"
  /\ ev.args = <<>>
  /\ ev' = [ev EXCEPT !.str = <<>>]
  /\ pc' = "running"
  /\ UNCHANGED <<input, ctl, ks, error>>

\* The listener of 'data': str += chunk.
stdinData ==
  /\ pc = "running"
  /\ ks # <<>>
  /\ ev' = [ev EXCEPT !.str = Append(@, ks[1])]
  /\ ks' = Tail(ks)
  /\ UNCHANGED <<input, ctl, pc, error>>

\* stylus(str, options).render(fn): fn gets the error, or the css.
render(str, options, compiles) ==
  IF compiles THEN [err |-> "", css |-> <<"css", str, options.compress>>]
  ELSE [err |-> "ParseError", css |-> <<>>]

\* The listener of 'end' when the source compiles: the callback of render
\* writes the css, between the input and an empty line with compare.
stdinEnd ==
  /\ pc = "running"
  /\ ks = <<>>
  /\ render(ev.str, [filename |-> "stdin", compress |-> ev.compress],
            input.compiles).err = ""
  /\ ev' = [ev EXCEPT
              !.jobs = Append(@, [how |-> "compile", str |-> ev.str,
                                  compress |-> ev.compress]),
              !.out = @ \o (IF ev.compare THEN <<"Input:", ev.str, "Output:">>
                            ELSE <<>>)
                        \o <<render(ev.str,
                                    [filename |-> "stdin",
                                     compress |-> ev.compress],
                                    input.compiles).css>>
                        \o (IF ev.compare THEN <<"">> ELSE <<>>)]
  /\ pc' = "done"
  /\ UNCHANGED <<input, ctl, ks, error>>

\* The listener of 'end' when it does not: `if (err) throw err`.
stdinEndThrows ==
  /\ pc = "running"
  /\ ks = <<>>
  /\ render(ev.str, [filename |-> "stdin", compress |-> ev.compress],
            input.compiles).err # ""
  /\ ev' = [ev EXCEPT
              !.jobs = Append(@, [how |-> "compile", str |-> ev.str,
                                  compress |-> ev.compress])]
  /\ error' = render(ev.str, [filename |-> "stdin", compress |-> ev.compress],
                     input.compiles).err
  /\ pc' = "failed"
  /\ UNCHANGED <<input, ctl, ks>>

NextCli ==
  \/ handleArgument
  \/ openStdin
  \/ stdinData
  \/ stdinEnd
  \/ stdinEndThrows

SpecCli == InitCli /\ [][NextCli]_vars

(***************************************************************************)
(* The parser on the lookahead of a statement: Parser.parse, Parser.stmt,  *)
(* Parser.function and Parser.ident, and Parser.property up to the end of  *)
(* this.looksLikeSelector.  Here `input` is the tokens the lexer gives     *)
(* from the statement on (their types) and the state the parser is in when *)
(* it comes to the statement (this.currentState), `ev` the Parser object   *)
(* with the local `i` of the getter that looks ahead (la), `parens` and    *)
(* the getter that the lookahead has chosen (result), and ctl.op the place *)
(* in the code:                                                            *)
(*   "function"    the while loop of Parser.function                       *)
(*   "spaces"      the while loop of Parser.ident                          *)
(*   "idents"      the first while loop of looksLikeSelector               *)
(*   "tokens"      its loop over the selector tokens                       *)
(*   "separators"  its loop up to the trailing separator                   *)
(* The tokens of the model are those of TokenKinds; `,`, `{`, `}`, `;`,    *)
(* outdent, `for` and `if` are not among them, and this.css is not set.    *)
(* A lookahead past the last token gives eos, however far, so the local    *)
(* `i` is kept up to MaxLookahead only: from there on every lookahead is   *)
(* eos.                                                                    *)
(***************************************************************************)
MaxStream == 4

MaxLookahead == MaxStream + 2

TokenKinds == {"ident", "function", "(", ")", "space", ":", "newline", "indent"}

\* The token streams of a statement that starts with an ident or with a
\* function token.
Streams ==
  UNION {{<<t>> \o s : t \in {"ident", "function"}, s \in [1..n -> TokenKinds]} :
           n \in 0..(MaxStream - 1)}

\* this.lookahead(n).type
lookahead(tokens, n) == IF n <= Len(tokens) THEN tokens[n] ELSE "eos"

\* ++i
Inc(n) == IF n < MaxLookahead THEN n + 1 ELSE n

\* Parser.isSelectorToken on the tokens of the model.
isSelectorToken(tokens, n) ==
  lookahead(tokens, n) \in {"ident", "function", "space", "(", ")", ":"}

\* Parser.isPseudoSelector: ~pseudoSelectors.indexOf(this.lookahead(n).val.name).
\* The names are not in the model: a token with a name may be a pseudo
\* selector or not, and a token the lexer gives no value makes `.val.name`
\* throw.
isPseudoSelector(tokens, n) ==
  IF lookahead(tokens, n) \in {"ident", "function"}
  THEN {"true", "false"} ELSE {"false", "TypeError"}

LookaheadParser0 == [la |-> 0, parens |-> 0, result |-> ""]

InitLookahead ==
  /\ input \in [tokens : Streams \cup {<<>>}, state : {"root", "selector"}]
  /\ ev = LookaheadParser0
  /\ ctl = Idle
  /\ ks = <<>>
  /\ pc = "parsed"
  /\ error = ""

\* The getter that goes on with the statement is called: the lookahead has
\* ended.
Decided(getter) ==
  /\ ev' = [ev EXCEPT !.result = getter]
  /\ pc' = "decided"
  /\ ctl' = Idle
  /\ UNCHANGED <<input, ks, error>>

\* Parser.stmt on the first token: this[type] for a function or an ident;
\* at eos the loop of Parser.parse returns the root.
stmtDispatch ==
  /\ pc = "parsed"
  /\ CASE lookahead(input.tokens, 1) = "eos" ->
            /\ pc' = "done"
            /\ UNCHANGED <<ev, ctl>>
       [] lookahead(input.tokens, 1) = "function" ->
            /\ pc' = "running"
            /\ ev' = [ev EXCEPT !.la = 2, !.parens = 1]
            /\ ctl' = At("function", 0)
       [] OTHER ->
            /\ pc' = "running"
            /\ ev' = [ev EXCEPT !.la = 2]
            /\ ctl' = At("spaces", 0)
  /\ UNCHANGED <<input, ks, error>>

\* One turn of the while loop of Parser.function: tok = this.lookahead(i++),
\* which is a token whatever i is, then the parens are paired.
functionLookahead ==
  /\ pc = "running"
  /\ ctl.op = "function"
  /\ Let(lookahead(input.tokens, ev.la), LAMBDA tok :
        CASE tok \in {"function", "("} ->
               /\ ev' = [ev EXCEPT !.la = Inc(@), !.parens = @ + 1]
               /\ UNCHANGED ctl
          [] tok = ")" ->
               /\ ev' = [ev EXCEPT !.la = Inc(@), !.parens = @ - 1]
               /\ ctl' = IF ev.parens = 1 THEN At("paired", 0) ELSE ctl
          [] OTHER ->
               /\ ev' = [ev EXCEPT !.la = Inc(@)]
               /\ UNCHANGED ctl)
  /\ UNCHANGED <<input, ks, pc, error>>

\* Parser.function after its loop: the state is not 'expression', so
\* this.looksLikeFunctionDefinition(i) chooses.
functionDecides ==
  /\ pc = "running"
  /\ ctl.op = "paired"
  /\ Decided(IF lookahead(input.tokens, ev.la) = "indent"
             THEN "functionDefinition" ELSE "expression")

\* One turn of the while loop of Parser.ident: la = this.lookahead(++i).type.
identLookahead ==
  /\ pc = "running"
  /\ ctl.op = "spaces"
  /\ lookahead(input.tokens, ev.la) = "space"
  /\ ev' = [ev EXCEPT !.la = Inc(@)]
  /\ UNCHANGED <<input, ks, ctl, pc, error>>

\* The switch of Parser.ident on a token that is no operator: at the root the
\* selector, in a selector the property, which calls this.looksLikeSelector.
identDecides ==
  /\ pc = "running"
  /\ ctl.op = "spaces"
  /\ lookahead(input.tokens, ev.la) # "space"
  /\ IF input.state = "root" THEN Decided("selector")
     ELSE /\ ev' = [ev EXCEPT !.la = 1]
          /\ ctl' = At("idents", 0)
          /\ UNCHANGED <<input, ks, pc, error>>

\* The first loop of looksLikeSelector: an ident followed by a newline.
looksLikeSelectorIdents ==
  /\ pc = "running"
  /\ ctl.op = "idents"
  /\ IF /\ lookahead(input.tokens, ev.la) = "ident"
        /\ lookahead(input.tokens, ev.la + 1) = "newline"
     THEN ev' = [ev EXCEPT !.la = Inc(Inc(@))] /\ UNCHANGED ctl
     ELSE ctl' = At("tokens", 0) /\ UNCHANGED ev
  /\ UNCHANGED <<input, ks, pc, error>>

\* One turn of the loop over the selector tokens: a `:` followed by a pseudo
\* selector makes looksLikeSelector return true, and Parser.property the
\* selector.
looksLikeSelectorTokens ==
  /\ pc = "running"
  /\ ctl.op = "tokens"
  /\ isSelectorToken(input.tokens, ev.la)
  /\ IF lookahead(input.tokens, ev.la) = ":"
     THEN \E pseudo \in isPseudoSelector(input.tokens, Inc(ev.la)) :
             CASE pseudo = "true" -> Decided("selector")
               [] pseudo = "TypeError" ->
                    /\ pc' = "failed"
                    /\ error' = "TypeError"
                    /\ ctl' = Idle
                    /\ UNCHANGED <<input, ev, ks>>
               [] OTHER ->
                    /\ ev' = [ev EXCEPT !.la = Inc(@)]
                    /\ UNCHANGED <<input, ks, ctl, pc, error>>
     ELSE /\ ev' = [ev EXCEPT !.la = Inc(@)]
          /\ UNCHANGED <<input, ks, ctl, pc, error>>

\* The end of the loop over the selector tokens; no trailing comma or brace
\* among the tokens of the model.
looksLikeSelectorTrailing ==
  /\ pc = "running"
  /\ ctl.op = "tokens"
  /\ ~isSelectorToken(input.tokens, ev.la)
  /\ ctl' = At("separators", 0)
  /\ UNCHANGED <<input, ev, ks, pc, error>>

\* One turn of the loop up to the trailing separator: on a token that is
\* not newline, indent, outdent, for, if, `;` or `}`, ++i.
looksLikeSelectorSeparators ==
  /\ pc = "running"
  /\ ctl.op = "separators"
  /\ lookahead(input.tokens, ev.la) \notin {"newline", "indent"}
  /\ ev' = [ev EXCEPT !.la = Inc(@)]
  /\ UNCHANGED <<input, ks, ctl, pc, error>>

\* looksLikeSelector returns, true on an indent, and Parser.property goes on
\* with the selector or with the property.
looksLikeSelectorReturns ==
  /\ pc = "running"
  /\ ctl.op = "separators"
  /\ lookahead(input.tokens, ev.la) \in {"newline", "indent"}
  /\ Decided(IF lookahead(input.tokens, ev.la) = "indent"
             THEN "selector" ELSE "property")

NextLookahead ==
  \/ stmtDispatch
  \/ functionLookahead
  \/ functionDecides
  \/ identLookahead
  \/ identDecides
  \/ looksLikeSelectorIdents
  \/ looksLikeSelectorTokens
  \/ looksLikeSelectorTrailing
  \/ looksLikeSelectorSeparators
  \/ looksLikeSelectorReturns

SpecLookahead == InitLookahead /\ [][NextLookahead]_vars

\* The parser is one sequential program: as long as it has a step to take,
\* it takes one.
SpecLookaheadFair == SpecLookahead /\ WF_vars(NextLookahead)


(***************************************************************************)
(* Properties.                                                             *)
(***************************************************************************)
\* The run has ended, or is about to end, with the error msg.
Raised(msg) == (ctl.op = "throw" /\ ctl.e = msg) \/ error = msg

\* The names of the charsets among the statements rs, in order.
CharsetNames(h, rs) ==
  LET cs == SelectSeq(rs, LAMBDA r : r # 0 /\ h[r].k = "charset")
  IN [j \in 1..Len(cs) |-> h[cs[j]].name]

\* The charsets of a source text with every @import of a root statement
\* replaced by the text of the file, depth-first.
RECURSIVE Expand(_)
Expand(ts) ==
  IF ts = <<>> THEN <<>>
  ELSE (CASE ts[1][1] = "charset" -> <<ts[1][2]>>
          [] ts[1][1] = "import" -> Expand(Files(ts[1][2] \o ".styl"))
          [] OTHER -> <<>>)
       \o Expand(Tail(ts))

\* The import of the entry e of ev.imported was a root statement, at the
\* root index visitImport read.
RootStatement(e) ==
  e.i >= 0 /\ e.i < Len(e.before) /\ e.before[e.i + 1] = e.import

\* C1: a non-.css @import visited as the root statement at index i leaves the
\* root holding the statements that were at indices <= i, then the statements
\* of the file in file order, then the statements that were at indices > i;
\* an @import inside an imported file is a root statement in its turn, so a
\* text whose imports are all root statements ends as its depth-first
\* expansion.
C1_ImportSplicesInPlace ==
  /\ \A j \in 1..Len(ev.imported) :
       LET e == ev.imported[j]
           text == Files(e.path)
       IN RootStatement(e) =>
            /\ e.after = SubSeq(e.before, 1, e.i + 1) \o e.file
                           \o SubSeq(e.before, e.i + 2, Len(e.before))
            /\ Len(e.file) = Len(text)
            /\ \A m \in 1..Len(text) :
                 /\ ev.heap[e.file[m]].k = text[m][1]
                 /\ ev.heap[e.file[m]].name = text[m][2]
  /\ (pc = "done" /\ input.p \in 1..3 /\ input.imports = <<>>) =>
       CharsetNames(ev.heap, NodesOf(ev.heap, ev.root))
         = Expand(Program(input.p, input.a, input.b))

\* C1, reached: `@import "b"` then a charset, b.styl importing a.styl between
\* two charsets; both imports were root statements and the run is over.
C1_Witness ==
  /\ pc = "done"
  /\ input.p = 2
  /\ input.imports = <<>>
  /\ Len(ev.imported) = 2
  /\ \A j \in 1..2 : RootStatement(ev.imported[j])
  /\ ev.imported[2].i = 2
  /\ CharsetNames(ev.heap, NodesOf(ev.heap, ev.root))
       = <<"b1", "a1", "a2", "b2", "u1">>

\* The entry e of ev.binds is of a parameter that was given a non-empty
\* argument.
Given(e) == e.i + 1 <= Len(e.args) /\ ~e.empty[e.i + 1]

\* C2: a parameter that is no rest parameter is bound, in the frame of the
\* invocation, to its argument when a non-empty one is given, else to its
\* default when it has one; with neither, the invocation fails with the
\* missing-argument error and binds nothing.
C2_ParameterBinding ==
  \A j \in 1..Len(ev.binds) :
    LET e == ev.binds[j]
    IN ~e.rest =>
         /\ Given(e) => e.val = e.args[e.i + 1] /\ e.bound = e.val
         /\ (~Given(e) /\ e.default # NullRef) =>
              e.val = e.default /\ e.bound = e.default
         /\ (~Given(e) /\ e.default = NullRef) =>
              e.val = 0 /\ Raised("argument required")

\* C2, reached: f(x, y = b) was invoked with one argument, binding y to the
\* default, and with two, binding y to the second.
C2_Witness ==
  /\ pc = "done"
  /\ \E j, m \in 1..Len(ev.binds) :
       /\ ev.binds[j].name = "y" /\ ~Given(ev.binds[j])
       /\ ev.binds[j].default # NullRef
       /\ ev.binds[j].bound = ev.binds[j].default
       /\ ev.binds[m].name = "y" /\ Given(ev.binds[m])
       /\ ev.binds[m].i = 1
       /\ ev.binds[m].bound = ev.binds[m].args[2]

\* C3: `x ?= v` with x bound in no frame of the stack leaves the current
\* scope binding x to the value of v; with x bound in some frame it changes
\* no scope and does not evaluate v.
C3_DefaultAssignment ==
  \A j \in 1..Len(ev.defaults) :
    LET e == ev.defaults[j]
        scope == e.stack1[Len(e.stack1)].scope
    IN /\ ~e.bound => e.name \in DOMAIN scope /\ scope[e.name] = e.v
       /\ e.bound => e.stack1 = e.stack0 /\ ~e.evaluated

\* C4: the stack-overflow error is raised exactly when more than 200
\* invocations are nested, however they were written.
C4_RecursionGuard ==
  Raised("Maximum call stack size exceeded")
    <=> Len(ev.active) > MaxCallStackSize

\* C5: visiting a property that is flagged literal already returns it with
\* its name and its expression as they were, and changes no scope.
C5_LiteralPropertyIdentity ==
  \A j \in 1..Len(ev.props) :
    LET e == ev.props[j]
    IN /\ e.v = e.prop
       /\ e.name1 = e.name0
       /\ e.expr1 = e.expr0
       /\ e.stack1 = e.stack0

\* C6: an invocation leaves the Function node as it was: its body, its
\* parameters and their defaults.
C6_FunctionUnchanged ==
  \A j \in 1..Len(ev.invokes) : ev.invokes[j].after = ev.invokes[j].before

\* The first Return among the statements, looking into a nested block before
\* the statements after it; 0 when there is none.
RECURSIVE firstReturn(_, _)
firstReturn(h, nodes) ==
  IF nodes = <<>> THEN 0
  ELSE LET inner == IF h[nodes[1]].k = "block"
                    THEN firstReturn(h, NodesOf(h, nodes[1]))
                    ELSE 0
       IN CASE h[nodes[1]].k = "return" -> nodes[1]
            [] h[nodes[1]].k # "return" /\ inner # 0 -> inner
            [] OTHER -> firstReturn(h, Tail(nodes))

\* C7: in return mode an invocation evaluates to the expression of the first
\* Return of the evaluated body, nested blocks included, and to the last
\* statement of the body when it holds no Return.
C7_ReturnValue ==
  \A j \in 1..Len(ev.evals) :
    LET e == ev.evals[j]
        ret == firstReturn(e.heap, e.nodes)
    IN e.v = IF ret # 0 THEN e.heap[ret].val
             ELSE IF e.nodes = <<>> THEN 0
             ELSE e.nodes[Len(e.nodes)]

\* The statements with nested blocks flattened.
RECURSIVE Flatten(_, _)
Flatten(h, nodes) ==
  IF nodes = <<>> THEN <<>>
  ELSE (IF h[nodes[1]].k = "block" THEN Flatten(h, NodesOf(h, nodes[1]))
        ELSE <<nodes[1]>>)
       \o Flatten(h, Tail(nodes))

\* The statements before the first Return.
UpToReturn(h, nodes) ==
  LET rets == {m \in 1..Len(nodes) : h[nodes[m]].k = "return"}
      m1 == CHOOSE m \in rets : \A n \in rets : m <= n
  IN IF rets = {} THEN nodes ELSE SubSeq(nodes, 1, m1 - 1)

\* The statement is the call statement of the call: the call itself, the
\* expression that holds it, or the property it was made of.
IsCallStatement(h, stmt, call) ==
  /\ stmt # 0
  /\ call # 0
  /\ \/ stmt = call
     \/ h[stmt].k = "expression"
          /\ \E m \in 1..Len(h[stmt].nodes) : h[stmt].nodes[m] = call
     \/ h[stmt].k = "property" /\ h[stmt].val = h[call].val

\* C8: in mixin mode a call takes the call statement, and nothing else, out of
\* the block, and puts the flattened body in its place; every other statement
\* stays, in order.
C8_MixinReplacesCallSite ==
  \A j \in 1..Len(ev.mixes) :
    LET e == ev.mixes[j]
    IN /\ e.index >= 0
       /\ e.index < Len(e.before)
       /\ IsCallStatement(e.heap, e.before[e.index + 1], e.call)
       /\ e.after = SubSeq(e.before, 1, e.index)
                      \o UpToReturn(e.heap, Flatten(e.heap, e.body))
                      \o SubSeq(e.before, e.index + 2, Len(e.before))

\* C9: the callee is the function the stack binds to the name, else the host
\* function of the name, else the built-in; with none of them the call itself
\* is returned, no frame is pushed and the active calls are as before.
C9_CalleePriority ==
  \A j \in 1..Len(ev.calls) :
    LET e == ev.calls[j]
        onStack == e.bound # 0 /\ e.var # 0 /\ ev.heap[e.var].k = "function"
    IN /\ e.how = (CASE onStack -> "stack"
                      [] ~onStack /\ e.name \in ev.functions -> "functions"
                      [] ~onStack /\ e.name \notin ev.functions
                           /\ e.name \in bifs -> "bifs"
                      [] OTHER -> "literal")
       /\ e.how = "literal" =>
            e.v = e.call /\ e.depth1 = e.depth0 /\ e.calling1 = e.calling0

\* C10: a lookup Ident whose name no frame binds is returned as it is; an
\* assignment Ident evaluates its value, binds it in the innermost scope and
\* in no other, and returns the value.
C10_IdentResolution ==
  \A j \in 1..Len(ev.idents) :
    LET e == ev.idents[j]
        n == Len(e.stack1)
    IN /\ (~e.assign /\ ~e.bound) =>
            e.v = e.ident /\ e.after = e.before /\ e.stack2 = e.stack0
       /\ e.assign =>
            /\ e.v = e.val
            /\ Len(e.stack2) = n
            /\ \A m \in 1..(n - 1) : e.stack2[m] = e.stack1[m]
            /\ e.stack2[n].block = e.stack1[n].block
            /\ DOMAIN e.stack2[n].scope
                 = DOMAIN e.stack1[n].scope \cup {e.name}
            /\ \A x \in DOMAIN e.stack2[n].scope :
                 e.stack2[n].scope[x] = IF x = e.name THEN e.v
                                         ELSE e.stack1[n].scope[x]

\* C11: while the value of a property is parsed, a `/` makes a BinOp exactly
\* when it lies inside at least one pair of parentheses that is open at that
\* point, and the literal separator otherwise.
C11_SlashInParens ==
  \A j \in 1..Len(ev.slashes) :
    (ev.slashes[j].made = "binop") <=> (ev.slashes[j].open > 0)


\* C12: when Parser.block has returned, the css flag of the parser has the
\* value it had when that block was entered, and no well-formed source with
\* nested blocks of both styles fails to parse: every block ends at its own
\* `}` or outdent.
C12_BlockRestoresCss ==
  /\ \A j \in 1..Len(ev.blocks) : ev.blocks[j].exit = ev.blocks[j].entry
  /\ input \in Statements(MaxNesting) => pc # "failed"

\* The places of node n in the sequence nodes.
Places(nodes, n) == {m \in 1..Len(nodes) : nodes[m] = n}

\* C13: a visitEach over a list of n elements that has returned has visited n
\* clones of the body, none of them visited twice, the i-th with val bound to
\* the i-th element and key to the unit i; the block of the frame then holds
\* every statement that every iteration has put there, those of an earlier
\* iteration before those of a later one.
C13_EachIterations ==
  \A e \in 1..Len(ev.eachs) :
    LET end == ev.eachs[e]
        its == {j \in 1..e : ev.eachs[j].id = end.id /\ ev.eachs[j].body # 0}
    IN  end.body = 0 =>
          /\ end.i = Len(end.list)
          /\ \A i \in 0..(end.i - 1) :
               Cardinality({j \in its : ev.eachs[j].i = i}) = 1
          /\ \A j \in its :
               LET it == ev.eachs[j]
               IN  /\ it.val = it.list[it.i + 1]
                   /\ ev.heap[it.key].k = "unit"
                   /\ ev.heap[it.key].num = it.i
                   /\ \A m \in 1..Len(ev.eachs) :
                        m # j => ev.eachs[m].body # it.body
                   /\ \A m \in 1..Len(it.made) :
                        Places(end.nodes, it.made[m]) # {}
          /\ \A j1, j2 \in its :
               ev.eachs[j1].i < ev.eachs[j2].i =>
                 \A m1 \in 1..Len(ev.eachs[j1].made), m2 \in 1..Len(ev.eachs[j2].made) :
                   \A p1 \in Places(end.nodes, ev.eachs[j1].made[m1]),
                      p2 \in Places(end.nodes, ev.eachs[j2].made[m2]) : p1 < p2

C15_ErrorLine ==
  (pc = "failed" /\ ev.raised # 0) => ev.lineno = ev.heap[ev.raised].lineno

\* C16: an If that is a statement of the block of a group, and whose visit
\* in mixin mode has selected a block, evaluates to null, and the statements
\* of that block are then statements of the block of that group.
C16_IfMixedIntoGroup ==
  \A j \in 1..Len(ev.ifs) :
    LET e == ev.ifs[j]
    IN  (e.owners # {} /\ e.branch # <<>> /\ ~e.return) =>
          /\ e.v = NullRef
          /\ \A g \in e.owners :
               \A m \in 1..Len(e.branch[1]) :
                 Places(e.blocks[g], e.branch[1][m]) # {}

\* Whether one of the flags is among the arguments of the process.
Flagged(flags) == \E j \in 1..Len(input.args) : input.args[j] \in flags

\* C17: without -h, bin/stylus writes nothing before stdin has ended; then
\* it has handed the chunks of stdin, in the order they came, to the library
\* once: to the css conversion exactly when -c or --css was given, otherwise
\* to the compiler, with compress set exactly when -C or --compress was
\* given; when the compiler fails the error is thrown and nothing is written.
C17_Cli ==
  ~Flagged({"-h", "--help"}) =>
    /\ (ev.out # <<>> \/ ev.jobs # <<>>) => (pc \in {"done", "failed"} /\ ks = <<>>)
    /\ pc \in {"done", "failed"} =>
         /\ Len(ev.jobs) = 1
         /\ ev.jobs[1].str = input.chunks
         /\ (ev.jobs[1].how = "convert") <=> Flagged({"-c", "--css"})
         /\ ev.jobs[1].how = "compile" =>
              (ev.jobs[1].compress <=> Flagged({"-C", "--compress"}))
    /\ pc = "failed" => (ev.out = <<>> /\ error # "")

\* C18: whenever visitRoot or visitBlock (the body of a function included)
\* visits one of its statements, the return flag is false, whatever the mode
\* of the call that led there.
C18_BodiesInMixinMode ==
  (/\ pc = "running"
   /\ ctl.op = "visit"
   /\ ks # <<>>
   /\ ks[Len(ks)].tag \in {"root", "block"}) => ~ev.return


\* The frames of the handlers that wait inside a region where this.return
\* is to be set: the arguments of a call, the right-hand side of an
\* assignment, the operands of a binary operator, the expression of a
\* property, a segment of its name.
Regions == {"call", "literalCall", "ident assign", "binop left", "binop right",
            "property", "interpolate"}

\* C19: this.return is false when the evaluator is constructed, it is true
\* all through the evaluation of the arguments of a call, of the right-hand
\* side of an assignment, of the operands of a binary operator, of the
\* expression of a property and of the segments of its name, and when a
\* visit returns without throwing the flag has the value it had when that
\* visit began.
C19_ReturnFlag ==
  /\ pc = "parsed" => ~ev.return
  /\ pc \in {"setup", "running"} =>
       \A j \in 1..Len(ks) : ks[j].tag \in Regions => ev.return
  /\ (pc \in {"setup", "running"} /\ ctl.op = "return" /\ ev.modes # <<>>) =>
       ev.return = ev.modes[Len(ks) + 1]

\* C20: while a condition of an if / else-if chain is evaluated, the
\* condition of the leading `if` or that of an `else if`, the return flag is
\* true.
C20_ConditionsInReturnMode ==
  pc = "running" =>
    \A j \in 1..Len(ks) : ks[j].tag \in {"if", "else if"} => ev.return

\* The names that an assignment has bound while the visit of the block of
\* entry b of ev.blocks went on; with a depth, those bound while the stack
\* had that depth.
AssignedIn(b) ==
  {ev.idents[j].name : j \in {m \in b.idents0 + 1..b.idents1 :
                                 ev.idents[m].assign}}

AssignedAt(b, depth) ==
  {ev.idents[j].name : j \in {m \in b.idents0 + 1..b.idents1 :
                                 /\ ev.idents[m].assign
                                 /\ Len(ev.idents[m].stack2) = depth}}

Reinvokes(j1, j, j2) ==
  /\ j1 < j /\ j < j2
  /\ ks[j1].tag = "invokeFunction"
  /\ ks[j].tag = "property call"
  /\ ks[j2].tag = "invokeFunction"
  /\ ks[j2].a = ks[j1].a
  /\ ks[j].name = ev.heap[ks[j1].a].name
  /\ \A m \in (j1 + 1)..(j - 1) : ks[m].tag # "invokeFunction"

\* C22: visitProperty evaluates the property as a call of the function its
\* name resolves to, with the expression of the property as argument, unless
\* the property is flagged literal or the name is among the active calls;
\* this.calling is as long after visitProperty as before; and a property
\* named f inside the body of a function f never invokes f again.
C22_PropertyCall ==
  /\ \A j \in 1..Len(ev.properties) :
       LET e == ev.properties[j]
       IN  /\ e.asCall <=> (e.call /\ ~e.flagged /\ ~e.active)
           /\ e.asCall => e.args = e.expr
           /\ e.calling1 = e.calling0
  /\ pc = "running" =>
       \A j1, j, j2 \in 1..Len(ks) : ~Reinvokes(j1, j, j2)

\* C23: Parser.parse() comes to an end on every token stream, the lexer
\* giving eos for every lookahead past the last token: the lookahead of the
\* statement ends, with the getter that parses the statement chosen, with
\* the root returned or with an error thrown.
C23_ParseTerminates == <>(pc \in {"done", "decided", "failed"})

\* What a statement of a source text is, and what a statement of the root
\* is: the name of a charset, the path of an import, or another statement.
TextLabels(ts) ==
  [j \in 1..Len(ts) |->
     IF ts[j][1] \in {"charset", "import"} THEN <<ts[j][1], ts[j][2]>>
     ELSE <<"statement", "">>]

NodeLabels(h, rs) ==
  [j \in 1..Len(rs) |->
     IF h[rs[j]].k \in {"charset", "import"} THEN <<h[rs[j]].k, h[rs[j]].name>>
     ELSE <<"statement", "">>]

\* The statements of the files of options.imports, in the order of the list.
RECURSIVE ImportedTexts(_)
ImportedTexts(files) ==
  IF files = <<>> THEN <<>>
  ELSE TextLabels(Files(files[1] \o ".styl")) \o ImportedTexts(Tail(files))

\* C24: once the evaluator is constructed, the root holds the statements of
\* the files of options.imports, file after file in the order of the list,
\* and then the statements of the source.
C24_OptionImportsInOrder ==
  pc = "constructed" =>
    NodeLabels(ev.heap, NodesOf(ev.heap, ev.root))
      = ImportedTexts(input.imports)
          \o TextLabels(Program(input.p, input.a, input.b))

\* The statements that followed the call site when the mixin of entry e of
\* ev.mixes was made.
Following(e) ==
  {e.before[j] : j \in (e.index + 2)..Len(e.before)}

\* C25: a statement of a root or block that follows a call made in mixin
\* mode is visited, whatever number of statements the call has put into the
\* block: when the evaluation has ended and no `return` has cut the block
\* short, every statement that followed the call site has been visited.
C25_NothingSkippedAfterMixin ==
  pc = "done" =>
    \A j \in 1..Len(ev.mixes) :
      LET e == ev.mixes[j]
          nodes == NodesOf(ev.heap, e.block)
      IN (/\ e.index >= 0
          /\ \A m \in 1..Len(nodes) : ev.heap[nodes[m]].k # "return")
         => Following(e) \subseteq ev.visited

============================================================================
